---------------------------- MODULE Spec2Model ----------------------------
(***************************************************************************)
(* A model of the Yu front end (yuminaa/Yu): the lexer, the token-set      *)
(* matcher and the parser.                                                 *)
(*                                                                         *)
(* The repository holds two copies of the lexer.  src/frontend/src/        *)
(* lexer.cpp (flag-setting scans, single-byte operator table) is modelled  *)
(* by the definitions without a suffix; the copy that follows the parser   *)
(* in src/frontend/include/parser.h (lines 1406-1761: generic-bracket      *)
(* automaton, operator lookup in token_map, UNKNOWN bytes skipped) is      *)
(* modelled by the definitions with the suffix _h.  The variable impl      *)
(* says which copy is linked.                                              *)
(*                                                                         *)
(* Bytes are the integers 0..255; a source buffer is a sequence of bytes   *)
(* and the C offset p is the element p + 1 of the sequence.                *)
(* The only build the repository configures is clang on macOS arm64        *)
(* (.github/workflows/workflow.yml), where the <cctype> predicates return  *)
(* 0 or 1, so the bit-wise combinations of their results in the scans      *)
(* behave as the logical ones; the model follows that build.               *)
(***************************************************************************)
EXTENDS Integers, Sequences, FiniteSets, TLC

VARIABLES
    impl,            \* which copy of the lexer is linked: "lexer_cpp" | "parser_h"
    src,             \* the bytes of the buffer the lexer can reach (std::string_view::data)
    src_size,        \* std::string_view::length() of the source passed to create_lexer
    past_end,        \* the byte stored right after the buffer (read only by out-of-bounds reads)
    src_length,      \* Lexer::src_length (uint32_t)
    current_pos,     \* Lexer::current_pos (uint32_t)
    tokens,          \* Lexer::tokens (TokenList: the parallel arrays, one record per index)
    line_starts,     \* Lexer::line_starts
    template_state,  \* Lexer::template_state {state, angle_depth} (parser.h copy only)
    pc,              \* "start" | "lexing" | "done" | "error" (create_lexer threw) | "client"
    arch,            \* token matcher: "X64" | "ARM64" | "PORTABLE"
    ctx_types,       \* token matcher: ctx->tokens->types
    ctx_pos,         \* token matcher: ctx->state.pos
    last_match,      \* token matcher: the last call, its arguments and what it returned
    ctx,             \* parser: the parse_context (state.pos, state.in_error, current, scope_stack)
    heap,            \* parser: the ir_node objects allocated so far
    stack,           \* parser: the frames of the productions that are running
    ret,             \* parser: the status the last production to return gave
    result,          \* parser: the pointer parse returned (0 is nullptr)
    parse_pc,        \* parser: "idle" | "running" | "returned" | "aborted"
    last_return,     \* parser: the last return of a production, with the cursor at its entry
    last_sync,       \* parser: the last call of sync_error
    members,         \* parser: the number of successful returns of parse_class_member
    last_peek        \* lexer: the last call of peek_next or next_token, the lexer before and after it

vars == << impl, src, src_size, past_end, src_length, current_pos, tokens,
           line_starts, template_state, pc, arch, ctx_types, ctx_pos, last_match,
           ctx, heap, stack, ret, result, parse_pc, last_return, last_sync,
           members, last_peek >>

lexer_vars == << impl, src, src_size, past_end, src_length, current_pos, tokens,
                 line_starts, template_state, pc >>

match_vars == << arch, ctx_types, ctx_pos, last_match >>

parse_vars == << ctx, heap, stack, ret, result, parse_pc, last_return, last_sync,
                 members >>

(***************************************************************************)
(* Bytes and text.                                                         *)
(***************************************************************************)
Printable ==
   << " ", "!", "QUOTE", "#", "$", "%", "&", "'", "(", ")", "*", "+", ",", "-", ".", "/",
      "0", "1", "2", "3", "4", "5", "6", "7", "8", "9", ":", ";", "<", "=", ">", "?",
      "@", "A", "B", "C", "D", "E", "F", "G", "H", "I", "J", "K", "L", "M", "N", "O",
      "P", "Q", "R", "S", "T", "U", "V", "W", "X", "Y", "Z", "[", "BSLASH", "]", "^", "_",
      "BTICK", "a", "b", "c", "d", "e", "f", "g", "h", "i", "j", "k", "l", "m", "n", "o",
      "p", "q", "r", "s", "t", "u", "v", "w", "x", "y", "z", "{", "|", "}", "~" >>

\* The byte value of a character given by its one-character string; the
\* double quote, the backslash and the control characters go by name.
Ord(c) ==
    IF c = "NL" THEN 10
    ELSE IF c = "TAB" THEN 9
    ELSE IF c = "CR" THEN 13
    ELSE 31 + (CHOOSE i \in 1..Len(Printable) : Printable[i] = c)

\* The bytes of a text given as a sequence of one-character strings.
B(text) == [i \in 1..Len(text) |-> Ord(text[i])]

\* src[p] for the C offset p.
At(s, p) == s[p + 1]

\* std::string_view(s + start, length)
Slice(s, start, length) == SubSeq(s, start + 1, start + length)

\* The exit offset of
\*     k = lo; while (k < hi && cond(k)) ++k;
\* given stops, the offsets of lo..hi-1 at which cond fails: the least of
\* them, hi when there is none, and lo when the loop is not entered.
ScanWhile(lo, hi, stops) ==
    IF stops # {} THEN CHOOSE j \in stops : \A k \in stops : j <= k
    ELSE IF lo > hi THEN lo ELSE hi

\* 2^16: the range of token_t::length (uint16_t), and the base in which the
\* model writes the integers wider than the 32 bits of TLC's integers
\* (std::size_t, uint32_t): [hi |-> h, lo |-> l] is h * 2^16 + l.
U16 == 65536

Wide(n) == [hi |-> n \div U16, lo |-> n % U16]
Narrow(w) == w.hi * U16 + w.lo
WideGreater(a, b) == a.hi > b.hi \/ (a.hi = b.hi /\ a.lo > b.lo)
WideAdd(a, b) == [hi |-> a.hi + b.hi + ((a.lo + b.lo) \div U16), lo |-> (a.lo + b.lo) % U16]

isdigit(c) == c \in 48..57
isalpha(c) == c \in (65..90) \cup (97..122)
isalnum(c) == isalpha(c) \/ isdigit(c)
isxdigit(c) == c \in (48..57) \cup (65..70) \cup (97..102)
isspace(c) == c \in {9, 10, 11, 12, 13, 32}
ispunct(c) == c \in (33..47) \cup (58..64) \cup (91..96) \cup (123..126)

\* char_type[c]: 1 whitespace, 2 '/', 3 '*', 4 identifier start, 5 digit, 6 double quote
char_type(c) ==
    (IF c \in {32, 9, 10, 13} THEN 1 ELSE 0)
    + (IF c = 47 THEN 2 ELSE 0)
    + (IF c = 42 THEN 3 ELSE 0)
    + (IF isalpha(c) \/ c = 95 \/ c = 64 THEN 4 ELSE 0)
    + (IF isdigit(c) THEN 5 ELSE 0)
    + (IF c = 34 THEN 6 ELSE 0)

(***************************************************************************)
(* Token tables.  lang::token_map (yu/include/tokens.h) is not part of the *)
(* sources at hand; its entries are taken from the token kinds the lexer   *)
(* tests and the parser name and from the enumeration of keywords and      *)
(* operators in the specification.                                         *)
(***************************************************************************)
keyword_map ==
    (B(<<"v", "a", "r">>) :> "VAR") @@
    (B(<<"c", "o", "n", "s", "t">>) :> "CONST") @@
    (B(<<"c", "l", "a", "s", "s">>) :> "CLASS") @@
    (B(<<"f", "u", "n", "c", "t", "i", "o", "n">>) :> "FUNCTION") @@
    (B(<<"p", "u", "b", "l", "i", "c">>) :> "PUBLIC") @@
    (B(<<"p", "r", "i", "v", "a", "t", "e">>) :> "PRIVATE") @@
    (B(<<"p", "r", "o", "t", "e", "c", "t", "e", "d">>) :> "PROTECTED") @@
    (B(<<"i", "f">>) :> "IF") @@
    (B(<<"e", "l", "s", "e">>) :> "ELSE") @@
    (B(<<"f", "o", "r">>) :> "FOR") @@
    (B(<<"w", "h", "i", "l", "e">>) :> "WHILE") @@
    (B(<<"r", "e", "t", "u", "r", "n">>) :> "RETURN") @@
    (B(<<"b", "r", "e", "a", "k">>) :> "BREAK") @@
    (B(<<"c", "o", "n", "t", "i", "n", "u", "e">>) :> "CONTINUE") @@
    (B(<<"i", "8">>) :> "I8") @@
    (B(<<"i", "1", "6">>) :> "I16") @@
    (B(<<"i", "3", "2">>) :> "I32") @@
    (B(<<"i", "6", "4">>) :> "I64") @@
    (B(<<"u", "8">>) :> "U8") @@
    (B(<<"u", "1", "6">>) :> "U16") @@
    (B(<<"u", "3", "2">>) :> "U32") @@
    (B(<<"u", "6", "4">>) :> "U64") @@
    (B(<<"f", "3", "2">>) :> "F32") @@
    (B(<<"f", "6", "4">>) :> "F64") @@
    (B(<<"s", "t", "r", "i", "n", "g">>) :> "STRING") @@
    (B(<<"b", "o", "o", "l", "e", "a", "n">>) :> "BOOLEAN") @@
    (B(<<"v", "o", "i", "d">>) :> "VOID") @@
    (B(<<"a", "u", "t", "o">>) :> "AUTO") @@
    (B(<<"i", "m", "p", "o", "r", "t">>) :> "IMPORT") @@
    (B(<<"f", "r", "o", "m">>) :> "FROM") @@
    (B(<<"n", "e", "w">>) :> "NEW") @@
    (B(<<"s", "t", "a", "t", "i", "c">>) :> "STATIC") @@
    (B(<<"i", "n", "l", "i", "n", "e">>) :> "INLINE") @@
    (B(<<"P", "t", "r">>) :> "PTR") @@
    (B(<<"t", "r", "u", "e">>) :> "TRUE") @@
    (B(<<"f", "a", "l", "s", "e">>) :> "FALSE") @@
    (B(<<"@", "p", "a", "c", "k", "e", "d">>) :> "PACKED_ANNOT") @@
    (B(<<"@", "a", "l", "i", "g", "n", "e", "d">>) :> "ALIGN_ANNOT") @@
    (B(<<"@", "a", "l", "i", "g", "n">>) :> "ALIGN_ANNOT") @@
    (B(<<"@", "d", "e", "p", "r", "e", "c", "a", "t", "e", "d">>) :> "DEPRECATED_ANNOT") @@
    (B(<<"@", "p", "u", "r", "e">>) :> "PURE_ANNOT")

single_char_tokens ==
    (B(<<"+">>) :> "PLUS") @@
    (B(<<"-">>) :> "MINUS") @@
    (B(<<"*">>) :> "STAR") @@
    (B(<<"/">>) :> "SLASH") @@
    (B(<<"%">>) :> "PERCENT") @@
    (B(<<"=">>) :> "EQUAL") @@
    (B(<<"!">>) :> "BANG") @@
    (B(<<"<">>) :> "LESS") @@
    (B(<<">">>) :> "GREATER") @@
    (B(<<"&">>) :> "AND") @@
    (B(<<"|">>) :> "OR") @@
    (B(<<"^">>) :> "XOR") @@
    (B(<<"~">>) :> "TILDE") @@
    (B(<<".">>) :> "DOT") @@
    (B(<<"(">>) :> "LEFT_PAREN") @@
    (B(<<")">>) :> "RIGHT_PAREN") @@
    (B(<<"{">>) :> "LEFT_BRACE") @@
    (B(<<"}">>) :> "RIGHT_BRACE") @@
    (B(<<"[">>) :> "LEFT_BRACKET") @@
    (B(<<"]">>) :> "RIGHT_BRACKET") @@
    (B(<<",">>) :> "COMMA") @@
    (B(<<":">>) :> "COLON") @@
    (B(<<";">>) :> "SEMICOLON") @@
    (B(<<"?">>) :> "QUESTION")

multi_char_map ==
    (B(<<"=", "=">>) :> "EQUAL_EQUAL") @@
    (B(<<"!", "=">>) :> "BANG_EQUAL") @@
    (B(<<"<", "=">>) :> "LESS_EQUAL") @@
    (B(<<">", "=">>) :> "GREATER_EQUAL") @@
    (B(<<"&", "&">>) :> "AND_AND") @@
    (B(<<"|", "|">>) :> "OR_OR") @@
    (B(<<"<", "<">>) :> "LEFT_SHIFT") @@
    (B(<<">", ">">>) :> "RIGHT_SHIFT") @@
    (B(<<"+", "=">>) :> "PLUS_EQUAL") @@
    (B(<<"-", "=">>) :> "MINUS_EQUAL") @@
    (B(<<"*", "=">>) :> "STAR_EQUAL") @@
    (B(<<"/", "=">>) :> "SLASH_EQUAL") @@
    (B(<<"%", "=">>) :> "PERCENT_EQUAL") @@
    (B(<<"&", "=">>) :> "AND_EQUAL") @@
    (B(<<"|", "=">>) :> "OR_EQUAL") @@
    (B(<<"<", "<", "=">>) :> "LEFT_SHIFT_EQUAL") @@
    (B(<<">", ">", "=">>) :> "RIGHT_SHIFT_EQUAL") @@
    (B(<<"-", ">">>) :> "ARROW")

token_map == keyword_map @@ single_char_tokens @@ multi_char_map

\* the loop "for (const auto& [text, type] : lang::token_map) if equal return type"
token_map_find(text, otherwise) == (token_map @@ (text :> otherwise))[text]

token_t(start, length, type, flags) ==
    [start |-> start, length |-> length % U16, type |-> type, flags |-> flags]

make_flag(condition, flag) == IF condition THEN {flag} ELSE {}

(***************************************************************************)
(* The lexer of src/frontend/src/lexer.cpp.                                *)
(***************************************************************************)
hex_lookup(c) == c \in (48..57) \cup (97..102) \cup (65..70)
bin_lookup(c) == c \in {48, 49}
valid_escapes(c) == c \in {110, 116, 114, 92, 34, 48, 120}

\* The inner loop of a block comment, entered with pos after the "/*".
RECURSIVE block_comment_loop(_, _, _, _)
block_comment_loop(s, n, pos, ls) ==
    IF pos + 1 < n
    THEN LET is_end == (At(s, pos) = 42) /\ (At(s, pos + 1) = 47)
             ls1 == IF At(s, pos) = 10 THEN Append(ls, pos + 1) ELSE ls
         IN  IF is_end
             THEN [pos |-> pos + 2, ls |-> ls1]
             ELSE block_comment_loop(s, n, pos + 1, ls1)
    ELSE [pos |-> pos, ls |-> ls]

\* skip_whitespace_comment: the cursor and line_starts it leaves.  r is the
\* cursor and line_starts the loop of a block comment left.
RECURSIVE skip_whitespace_comment(_, _, _, _)
skip_block_comment(s, n, r) == skip_whitespace_comment(s, n, r.pos, r.ls)

skip_whitespace_comment(s, n, pos, ls) ==
    IF pos < n
    THEN LET current_char == At(s, pos)
             type == char_type(current_char)
             ls1 == IF current_char = 10 THEN Append(ls, pos + 1) ELSE ls
             has_next == IF pos + 1 < n THEN 1 ELSE 0
             next_char == At(s, pos + has_next)
         IN  CASE type = 2 /\ next_char = 47 ->
                    skip_whitespace_comment(s, n,
                        ScanWhile(pos + 2, n, {k \in (pos + 2)..(n - 1) : At(s, k) = 10}),
                        ls1)
               [] type = 2 /\ next_char = 42 ->
                    skip_block_comment(s, n, block_comment_loop(s, n, pos + 2, ls1))
               [] type = 1 -> skip_whitespace_comment(s, n, pos + 1, ls1)
               [] OTHER -> [pos |-> pos, ls |-> ls1]
    ELSE [pos |-> pos, ls |-> ls]

\* lex_number from the test for an exponent on: first is where the digit loop
\* began and current where it stopped.
lex_number_exponent(s, n, pos, first, current) ==
    LET \* has_decimal |= is_dot: a bit, set once a '.' was consumed
        has_decimal == IF \E k \in first..(current - 1) : At(s, k) = 46 THEN 1 ELSE 0
        flags == make_flag(has_decimal > 1, "MULTIPLE_DECIMAL_POINTS")
        after_sign == IF current + 1 < n /\ At(s, current + 1) \in {43, 45}
                      THEN current + 2 ELSE current + 1
    IN  IF current < n /\ At(s, current) \in {101, 69}
        THEN IF after_sign >= n \/ ~isdigit(At(s, after_sign))
             THEN token_t(pos, after_sign - pos, "NUM_LITERAL",
                          flags \cup {"INVALID_EXPONENT"})
             ELSE token_t(pos,
                          ScanWhile(after_sign, n,
                                    {k \in after_sign..(n - 1) : ~isdigit(At(s, k))}) - pos,
                          "NUM_LITERAL", flags)
        ELSE token_t(pos, current - pos, "NUM_LITERAL", flags)

lex_number(s, n, pos) ==
    LET has_next == IF pos + 1 < n THEN 1 ELSE 0
        next == At(s, pos + has_next)
        is_zero == (At(s, pos) = 48)
        is_hex == is_zero /\ next \in {120, 88}
        is_bin == is_zero /\ next \in {98, 66}
        first == pos + (IF is_hex \/ is_bin THEN 2 ELSE 0)
        is_valid(c) == (is_hex /\ hex_lookup(c))
                       \/ (is_bin /\ bin_lookup(c))
                       \/ (~is_hex /\ ~is_bin /\ (isdigit(c) \/ c = 46))
    IN  lex_number_exponent(s, n, pos, first,
                            ScanWhile(first, n, {k \in first..(n - 1) : ~is_valid(At(s, k))}))

\* The scan loop of lex_string from offset cur: where it stops and the flags
\* set inside the loop.
RECURSIVE lex_string_loop(_, _, _)
lex_string_loop(s, n, cur) ==
    IF cur < n
    THEN LET c == At(s, cur)
             has_next == IF cur + 1 < n THEN 1 ELSE 0
             next == At(s, cur + has_next)
         IN  IF c = 92
             THEN IF ~valid_escapes(next)
                  THEN [cur |-> cur, flags |-> {"INVALID_ESCAPE_SEQUENCE"}]
                  ELSE IF next = 120
                  THEN IF cur + 3 >= n
                          \/ ~isxdigit(At(s, cur + 2))
                          \/ ~isxdigit(At(s, cur + 3))
                       THEN [cur |-> cur, flags |-> {"INVALID_ESCAPE_SEQUENCE"}]
                       ELSE lex_string_loop(s, n, cur + 4)
                  ELSE lex_string_loop(s, n, cur + 2)
             ELSE IF c = 34
             THEN [cur |-> cur + 1, flags |-> {}]
             ELSE IF c \in {10, 13}
             THEN [cur |-> cur, flags |-> {"UNTERMINATED_STRING"}]
             ELSE lex_string_loop(s, n, cur + 1)
    ELSE [cur |-> cur, flags |-> {}]

\* lex_string after its loop: r is where the loop stopped and the flags it set.
lex_string_end(s, n, pos, r) ==
    token_t(pos, r.cur - pos, "STR_LITERAL",
            r.flags \cup make_flag(r.cur >= n \/ At(s, r.cur - 1) # 34,
                                   "UNTERMINATED_STRING"))

lex_string(s, n, pos) == lex_string_end(s, n, pos, lex_string_loop(s, n, pos + 1))

\* lex_identifier after its loop: stop is where the loop stopped.
lex_identifier_end(s, n, pos, stop) ==
    LET c0 == At(s, pos)
        is_valid_start == c0 = 95 \/ c0 = 64 \/ isalpha(c0)
        flags == make_flag(~is_valid_start, "INVALID_IDENTIFIER_START")
                 \cup make_flag(stop < n /\ ~isspace(At(s, stop)) /\ ~ispunct(At(s, stop)),
                                "INVALID_IDENTIFIER_CHAR")
        length == (stop - pos) % U16
    IN  token_t(pos, length, token_map_find(Slice(s, pos, length), "IDENTIFIER"), flags)

lex_identifier(s, n, pos) ==
    lex_identifier_end(s, n, pos,
        ScanWhile(pos + (IF At(s, pos) = 64 THEN 1 ELSE 0), n,
                  {k \in (pos + (IF At(s, pos) = 64 THEN 1 ELSE 0))..(n - 1) :
                      ~(isalnum(At(s, k)) \/ At(s, k) = 95)}))

\* single_char_tokens[c]
single_char_type(c) == (single_char_tokens @@ (<<c>> :> "UNKNOWN"))[<<c>>]

\* next_token after skip_whitespace_comment, which left the cursor and
\* line_starts sk: the token, and the lexer fields the call leaves changed.
next_token_switch(s, n, sk) ==
    [token |-> IF sk.pos >= n THEN token_t(sk.pos, 0, "END_OF_FILE", {})
               ELSE CASE char_type(At(s, sk.pos)) = 4 -> lex_identifier(s, n, sk.pos)
                      [] char_type(At(s, sk.pos)) = 5 -> lex_number(s, n, sk.pos)
                      [] char_type(At(s, sk.pos)) = 6 -> lex_string(s, n, sk.pos)
                      [] OTHER -> token_t(sk.pos, 1, single_char_type(At(s, sk.pos)), {}),
     current_pos |-> sk.pos,
     line_starts |-> sk.ls]

next_token(s, n, pos, ls) == next_token_switch(s, n, skip_whitespace_comment(s, n, pos, ls))

(***************************************************************************)
(* The lexer that follows the parser in src/frontend/include/parser.h.     *)
(***************************************************************************)
\* A read of s[k] that may run one byte past the buffer: what it yields there
\* is whatever byte follows the buffer in memory.
AtOrPast(s, n, pe, k) == IF k < n THEN At(s, k) ELSE pe

RECURSIVE block_comment_loop_h(_, _, _, _)
block_comment_loop_h(s, n, pos, ls) ==
    IF pos + 1 < n
    THEN LET is_end == (At(s, pos) = 42) /\ (At(s, pos + 1) = 47)
             ls1 == Append(ls, pos + (IF At(s, pos) = 10 THEN 1 ELSE 0))
         IN  IF is_end
             THEN [pos |-> pos + 2, ls |-> ls1]
             ELSE block_comment_loop_h(s, n, pos + 1, ls1)
    ELSE [pos |-> pos, ls |-> ls]

RECURSIVE skip_whitespace_comment_h(_, _, _, _)
skip_block_comment_h(s, n, r) == skip_whitespace_comment_h(s, n, r.pos, r.ls)

skip_whitespace_comment_h(s, n, pos, ls) ==
    IF pos < n
    THEN LET current_char == At(s, pos)
             type == char_type(current_char)
             ls1 == Append(ls, pos + (IF current_char = 10 THEN 1 ELSE 0))
             next_char == IF pos + 1 < n THEN At(s, pos + 1) ELSE 0
         IN  CASE type = 2 /\ next_char = 47 ->
                    skip_whitespace_comment_h(s, n,
                        ScanWhile(pos + 2, n, {k \in (pos + 2)..(n - 1) : At(s, k) = 10}),
                        ls1)
               [] type = 2 /\ next_char = 42 ->
                    skip_block_comment_h(s, n, block_comment_loop_h(s, n, pos + 2, ls1))
               [] type = 1 -> skip_whitespace_comment_h(s, n, pos + 1, ls1)
               [] OTHER -> [pos |-> pos, ls |-> ls1]
    ELSE [pos |-> pos, ls |-> ls]

lex_number_h(s, n, pe, pos) ==
    LET next == IF pos + 1 < n THEN At(s, pos + 1) ELSE 0
        is_hex == (At(s, pos) = 48) /\ next \in {120, 88}
        is_bin == (At(s, pos) = 48) /\ next \in {98, 66}
        first == pos + (IF is_hex \/ is_bin THEN 2 ELSE 0)
        should_advance(k) ==
            \/ isxdigit(At(s, k)) /\ is_hex
            \/ At(s, k) \in {48, 49} /\ is_bin
            \/ /\ ~is_hex
               /\ ~is_bin
               /\ \/ At(s, k) \in 48..57
                  \/ At(s, k) = 46 /\ At(s, k - 1) \in 48..57
                  \/ At(s, k) \in {101, 69} /\ AtOrPast(s, n, pe, k + 1) \in {43, 45}
    IN  token_t(pos,
                ScanWhile(first, n, {k \in first..(n - 1) : ~should_advance(k)}) - pos,
                "NUM_LITERAL", {})

RECURSIVE lex_string_loop_h(_, _, _)
lex_string_loop_h(s, n, cur) ==
    IF cur < n
    THEN LET is_escape == (At(s, cur) = 92) /\ (cur + 1 < n)
         IN  IF At(s, cur) = 34 /\ At(s, cur - 1) # 92
             THEN cur + 1
             ELSE lex_string_loop_h(s, n, cur + 1 + (IF is_escape THEN 1 ELSE 0))
    ELSE cur

\* lex_string after its loop, which stopped at cur.  flags is
\* static_cast<uint8_t>(is_unterminated): the bit of value 1, which the lexer
\* test reads as the unterminated-string flag.
lex_string_end_h(n, pos, cur) ==
    token_t(pos, cur - pos, "STR_LITERAL", make_flag(cur >= n, "UNTERMINATED_STRING"))

lex_string_h(s, n, pos) == lex_string_end_h(n, pos, lex_string_loop_h(s, n, pos + 1))

\* lex_identifier after its loop, which stopped at stop.
lex_identifier_end_h(s, pos, length) ==
    token_t(pos, length, token_map_find(Slice(s, pos, length), "IDENTIFIER"), {})

lex_identifier_h(s, n, pos) ==
    lex_identifier_end_h(s, pos,
        (ScanWhile(pos + (IF At(s, pos) = 64 THEN 1 ELSE 0), n,
                   {k \in (pos + (IF At(s, pos) = 64 THEN 1 ELSE 0))..(n - 1) :
                       ~(isalnum(At(s, k)) \/ At(s, k) = 95)}) - pos) % U16)

\* The end of the operator scan of next_token: found[len] is the type
\* token_map gives the len bytes at p, "NOT_FOUND" when it has no such entry;
\* the longest entry found wins.
operator_scan_best_h(p, found) ==
    LET hits == {len \in DOMAIN found : found[len] # "NOT_FOUND"}
        best_length == CHOOSE len \in hits : \A o \in hits : o <= len
    IN  IF hits # {} /\ found[best_length] # "UNKNOWN"
        THEN token_t(p, best_length, found[best_length], {})
        ELSE token_t(p, 1, "UNKNOWN", {})

\* The operator scan of next_token: token_map is tried at the lengths
\* min(remaining, 3) down to 1.
operator_scan_h(s, n, p) ==
    operator_scan_best_h(p,
        [len \in 1..(IF n - p < 3 THEN n - p ELSE 3) |->
            token_map_find(Slice(s, p, len), "NOT_FOUND")])

template_greater_h_mutant(is_template_context, is_greater) == FALSE

\* In template context a '>' is a GREATER of its own.
template_greater_h(is_template_context, is_greater) == is_template_context /\ is_greater

NoTemplate == [state |-> "NONE", angle_depth |-> 0]

template_reset_h_mutant(c, ts) ==
    IF ~(c \in {60, 62, 44, 124} \/ isspace(c)) /\ ts.state # "NONE"
    THEN [ts EXCEPT !.state = "NONE"] ELSE ts

\* The reset of template_state at the head of next_token, before the byte c.
template_reset_h(c, ts) ==
    LET is_template_char == c \in {60, 62, 44, 124} \/ isspace(c)
        should_reset == ~is_template_char /\ ts.state # "NONE" /\ ts.angle_depth = 0
    IN  IF should_reset THEN NoTemplate ELSE ts

\* The default case of the switch of next_token: an operator at p, with the
\* template state ts.
next_token_default_h(s, n, p, ts) ==
    LET is_less == (At(s, p) = 60)
        is_greater == (At(s, p) = 62)
        in_identifier == (ts.state = "IDENTIFIER")
        in_template == (ts.state = "TEMPLATE")
        ts2 == IF is_less /\ (in_identifier \/ in_template)
               THEN [state |-> "TEMPLATE", angle_depth |-> ts.angle_depth + 1]
               ELSE IF is_greater /\ in_template
               THEN [state |-> IF ts.angle_depth - 1 = 0 THEN "DONE" ELSE "TEMPLATE",
                     angle_depth |-> ts.angle_depth - 1]
               ELSE ts
        is_template_context == in_template \/ (in_identifier /\ is_less)
                               \/ ts2.angle_depth > 0
    IN  [token |-> IF template_greater_h(is_template_context, is_greater)
                   THEN token_t(p, 1, "GREATER", {})
                   ELSE operator_scan_h(s, n, p),
         template_state |-> ts2]

\* The switch of next_token at the byte at p, with the template state ts the
\* reset left.
next_token_switch_h(s, n, pe, p, ts) ==
    CASE char_type(At(s, p)) = 4 ->
           [token |-> lex_identifier_h(s, n, p),
            template_state |-> IF ts.state = "NONE"
                               THEN [ts EXCEPT !.state = "IDENTIFIER"] ELSE ts]
      [] char_type(At(s, p)) = 5 ->
           [token |-> lex_number_h(s, n, pe, p), template_state |-> ts]
      [] char_type(At(s, p)) = 6 ->
           [token |-> lex_string_h(s, n, p), template_state |-> ts]
      [] OTHER -> next_token_default_h(s, n, p, ts)

\* next_token after skip_whitespace_comment, which left the cursor and
\* line_starts sk.
next_token_skipped_h(s, n, pe, sk, ts) ==
    [current_pos |-> sk.pos, line_starts |-> sk.ls] @@
    (IF sk.pos >= n
     THEN [token |-> token_t(sk.pos, 0, "END_OF_FILE", {}), template_state |-> ts]
     ELSE next_token_switch_h(s, n, pe, sk.pos, template_reset_h(At(s, sk.pos), ts)))

\* next_token: the token, and the lexer fields the call leaves changed.
next_token_h(s, n, pe, pos, ls, ts) ==
    next_token_skipped_h(s, n, pe, skip_whitespace_comment_h(s, n, pos, ls), ts)

(***************************************************************************)
(* create_lexer and tokenize, for either copy.  A lexer is the record of   *)
(* the fields a call changes.                                              *)
(***************************************************************************)
UINT32_MAX == [hi |-> U16 - 1, lo |-> U16 - 1]

\* create_lexer of parser.h refuses a source longer than UINT32_MAX.
create_lexer_throws_h(size) == WideGreater(size, UINT32_MAX)

\* create_lexer of lexer.cpp has no such test.
create_lexer_throws(size) == FALSE

\* lexer.src_length = static_cast<uint32_t>(src.length())
create_lexer_src_length(size) == [hi |-> size.hi % U16, lo |-> size.lo]

\* tokenize of lexer.cpp pushes every token next_token returned.
tokenize_pushes(token) == TRUE

tokenize_pushes_h_mutant(token) == token.type \notin {"UNKNOWN", "END_OF_FILE"}

\* tokenize of parser.h pushes the token next_token returned unless it is UNKNOWN.
tokenize_pushes_h(token) == token.type # "UNKNOWN"

\* The rest of an iteration of the loop of tokenize in lexer.cpp, after
\* next_token returned r.
tokenize_push(lx, r) ==
    [lx |-> [current_pos |-> IF r.token.type = "END_OF_FILE" THEN r.current_pos
                             ELSE r.current_pos + r.token.length,
             tokens |-> IF tokenize_pushes(r.token)
                        THEN Append(lx.tokens, r.token) ELSE lx.tokens,
             line_starts |-> r.line_starts,
             template_state |-> lx.template_state],
     done |-> r.token.type = "END_OF_FILE"]

\* The rest of an iteration of the loop of tokenize in parser.h.
tokenize_push_h(lx, r) ==
    [lx |-> [current_pos |-> IF r.token.type = "END_OF_FILE" THEN r.current_pos
                             ELSE r.current_pos + r.token.length,
             tokens |-> IF tokenize_pushes_h(r.token)
                        THEN Append(lx.tokens, r.token) ELSE lx.tokens,
             line_starts |-> r.line_starts,
             template_state |-> r.template_state],
     done |-> r.token.type = "END_OF_FILE"]

\* One iteration of the loop of tokenize in lexer.cpp.
tokenize_iter(s, n, lx) ==
    tokenize_push(lx, next_token(s, n, lx.current_pos, lx.line_starts))

\* One iteration of the loop of tokenize in parser.h.
tokenize_iter_h(s, n, pe, lx) ==
    tokenize_push_h(lx, next_token_h(s, n, pe, lx.current_pos, lx.line_starts,
                                     lx.template_state))

iter(im, s, n, pe, lx) ==
    IF im = "lexer_cpp" THEN tokenize_iter(s, n, lx) ELSE tokenize_iter_h(s, n, pe, lx)

NewLexer == [current_pos |-> 0, tokens |-> <<>>, line_starts |-> <<0>>,
             template_state |-> NoTemplate]

\* tokenize run to its end on the buffer s: the lexer it leaves, and whether
\* the loop ended (it does not when an iteration leaves the cursor and the
\* template state where they were).  r is what the iteration from lx gave.
RECURSIVE tokenize_loop(_, _, _, _)
tokenize_after(im, s, pe, lx, r) ==
    IF r.done THEN [lx |-> r.lx, returned |-> TRUE]
    ELSE IF r.lx.current_pos = lx.current_pos
            /\ r.lx.template_state = lx.template_state
    THEN [lx |-> r.lx, returned |-> FALSE]
    ELSE tokenize_loop(im, s, pe, r.lx)

tokenize_loop(im, s, pe, lx) == tokenize_after(im, s, pe, lx, iter(im, s, Len(s), pe, lx))

tokenize(im, s, pe) == tokenize_loop(im, s, pe, NewLexer)

\* The kinds of a token list: TokenList::types.
types(toks) == [i \in 1..Len(toks) |-> toks[i].type]

(***************************************************************************)
(* The inputs.                                                             *)
(***************************************************************************)
MaxLen == 2
MaxTokens == 48
MaxNest == 3

Alphabet == { Ord(c) : c \in {"a", "1", ".", "e", "+", "QUOTE", "BSLASH", "NL",
                              "/", "*", "<", ">", "=", "#"} }

ShortSources == UNION { [1..len -> Alphabet] : len \in 0..MaxLen }

\* T<T<...T>...>: a generic type nested depth deep.
RECURSIVE Nested(_)
Nested(depth) ==
    IF depth = 0 THEN B(<<"T">>)
    ELSE B(<<"T", "<">>) \o Nested(depth - 1) \o B(<<">">>)

\* A token of 2^16 bytes: an identifier of 2^16 letters 'a'.
LongIdentifier == SubSeq([i \in 1..U16 |-> 97], 1, U16)

ExtraSources ==
    { B(<<"a", "+", "=", "b", "<", "<", "=", "c", ">", ">", "d">>),
      B(<<"a", " ", ">", ">", " ", "b">>),
      B(<<"a", ">", ">", "=", "b">>),
      B(<<"a", " ", "<", " ", "b", ";", " ", "c", " ", ">", ">", " ", "d">>),
      B(<<"v", "a", "r", " ", "m", ":", " ", "A", "<", "A", "<", "f", "3", "2", ">", ">", ";">>),
      B(<<"T", "<", "a", "-", ">", "b", ">">>),
      B(<<"v", "a", "r", " ", "x", " ", "=", " ", "5", ";">>),
      B(<<"QUOTE", "a", "b", "BSLASH">>),
      B(<<"QUOTE", "a", "BSLASH", "BSLASH", "QUOTE", "x">>),
      B(<<"QUOTE", "BSLASH", "x", "4", "1", "QUOTE">>),
      B(<<"QUOTE", "BSLASH", "x", "4">>),
      B(<<"QUOTE", "a", "NL", "b", "QUOTE">>),
      B(<<"QUOTE", "a", "NL", "b", "QUOTE", ";">>),
      B(<<"x", "=", "QUOTE", "a", "b", "NL", " ">>),
      B(<<"QUOTE", "a", "BSLASH", "q", "QUOTE">>),
      B(<<"0", "x", "F", "F", " ", "3", ".", "1", "4", " ", "0", "b", "1", "0", "1">>),
      B(<<"1", "e", "+", "5">>),
      B(<<"1", ".", "2", ".", "3">>),
      B(<<"6", ".", "0", "2", "2", "e", "2", "3">>),
      B(<<"a", "/", "*", " ", "NL", "*", "/", "b">>),
      B(<<"a", "/", "/", "c", "NL", "b">>),
      B(<<"a", "/", "b">>),
      B(<<"a", "$", "b">>),
      B(<<"QUOTE", "BSLASH", "NL", "QUOTE", " ", "a">>),
      B(<<"<", "<", "=", ">", ">", "=", "=", "=", "!", "=", "<", "=", ">", "=", "&", "&",
          "|", "|", "+", "=", "-", ">">>),
      LongIdentifier }
    \cup { Nested(d) : d \in 1..MaxNest }

Sources == ShortSources \cup ExtraSources

\* The lengths a source that begins with data may have: the modelled bytes
\* alone, or followed by bytes the lexer never reads, up to and across the
\* 4 GiB limit (2^32 - 1, 2^32, 2^32 + Len(data)).
Sizes(data) ==
    IF Len(data) <= 1
    THEN {Wide(Len(data)), UINT32_MAX, [hi |-> U16, lo |-> 0],
          WideAdd([hi |-> U16, lo |-> 0], Wide(Len(data)))}
    ELSE {Wide(Len(data))}

\* The byte after the buffer: the terminator of a string literal, or any
\* byte when the view is a part of a longer buffer.
PastEnd(im) == IF im = "parser_h" THEN {0, 43} ELSE {0}

(***************************************************************************)
(* The lexer as a state machine.                                           *)
(***************************************************************************)
\* No call of the token matcher yet.
NoMatch == [op |-> "none"]

\* No call of peek_next yet.
NoPeek == [op |-> "none"]

\* No return of a production and no call of sync_error yet.
NoReturn == [fn |-> "none", status |-> "NONE", entry |-> 0, pos |-> 0]
NoSync == [fn |-> "none", open |-> 0, from |-> 0, pos |-> 0, found |-> FALSE,
           status |-> "NONE", depth |-> 0, exhausted |-> FALSE]

\* The parser is not run.
ParserIdle ==
    /\ ctx = [pos |-> 0, in_error |-> 0, depth |-> 0, current |-> 0, scope_stack |-> <<>>]
    /\ heap = <<>>
    /\ stack = <<>>
    /\ ret = "NONE"
    /\ result = 0
    /\ parse_pc = "idle"
    /\ last_return = NoReturn
    /\ last_sync = NoSync
    /\ members = 0

Lx == [current_pos |-> current_pos, tokens |-> tokens,
       line_starts |-> line_starts, template_state |-> template_state]

Init ==
    /\ impl \in {"lexer_cpp", "parser_h"}
    /\ src = <<>>
    /\ src_size = Wide(0)
    /\ past_end = 0
    /\ src_length = Wide(0)
    /\ current_pos = 0
    /\ tokens = <<>>
    /\ line_starts = <<>>
    /\ template_state = NoTemplate
    /\ pc = "start"
    /\ arch = "PORTABLE"
    /\ ctx_types = <<>>
    /\ ctx_pos = 0
    /\ last_match = NoMatch
    /\ ParserIdle
    /\ last_peek = NoPeek

\* create_lexer(src): the source is data, followed (when size says so) by bytes
\* the model does not hold.
CreateLexer ==
    /\ pc = "start"
    /\ \E data \in Sources, pe \in PastEnd(impl) : \E size \in Sizes(data) :
        /\ src' = data
        /\ src_size' = size
        /\ past_end' = pe
        /\ IF (IF impl = "parser_h" THEN create_lexer_throws_h(size)
               ELSE create_lexer_throws(size))
           THEN /\ pc' = "error"
                /\ UNCHANGED << src_length, current_pos, tokens, line_starts,
                                template_state >>
           ELSE /\ pc' = "lexing"
                /\ src_length' = create_lexer_src_length(size)
                /\ current_pos' = 0
                /\ tokens' = <<>>
                /\ line_starts' = <<0>>
                /\ template_state' = NoTemplate
    /\ UNCHANGED << impl, match_vars, parse_vars, last_peek >>

\* The lexer holds a source all of whose bytes the model holds.
Runnable == src_length.hi <= 1 /\ Narrow(src_length) <= Len(src)

\* One iteration of the loop of tokenize.  The bytes of a source longer than
\* the modelled ones are not known, so such a lexer is not run.
TokenizeStep ==
    /\ pc = "lexing"
    /\ Runnable
    /\ Len(tokens) < MaxTokens
    /\ \E r \in {iter(impl, src, Narrow(src_length), past_end, Lx)} :
           /\ current_pos' = r.lx.current_pos
           /\ tokens' = r.lx.tokens
           /\ line_starts' = r.lx.line_starts
           /\ template_state' = r.lx.template_state
           /\ pc' = IF r.done THEN "done" ELSE "lexing"
    /\ UNCHANGED << impl, src, src_size, past_end, src_length, match_vars,
                    parse_vars, last_peek >>

Next == CreateLexer \/ TokenizeStep

Spec == Init /\ [][Next]_vars

(***************************************************************************)
(* Properties of the lexer.                                                *)
(***************************************************************************)
\* The token tokenize pushed last.
LastToken == tokens[Len(tokens)]

\* C1: tokenize terminates: the loop of next_token calls reaches END_OF_FILE
\* after finitely many iterations.  What next_token returns is a function of
\* the source, the cursor and the template state, so a loop that ends never
\* goes through an iteration that leaves the cursor and the template state
\* as they were without ending the loop: that iteration would repeat forever.
C1_IterationAdvances ==
    [][(pc = "lexing" /\ pc' = "lexing")
          => <<current_pos, template_state>>' # <<current_pos, template_state>>]_vars

\* C2: after tokenize returns, the token list holds exactly one END_OF_FILE
\* token, it is the last one and its length is 0; the empty source gives the
\* list of that one token.
C2_OneEndOfFile ==
    pc = "done" =>
        /\ Len(tokens) >= 1
        /\ LastToken.type = "END_OF_FILE"
        /\ LastToken.length = 0
        /\ \A i \in 1..(Len(tokens) - 1) : tokens[i].type # "END_OF_FILE"
        /\ (src_size = Wide(0) => tokens = << token_t(0, 0, "END_OF_FILE", {}) >>)

C2_Witness ==
    /\ pc = "done"
    /\ Len(tokens) >= 3
    /\ LastToken.type = "END_OF_FILE"

\* C3: every token tokenize emits, other than END_OF_FILE, lies inside the
\* source: start + length <= source length.
C3_TokenInsideSource ==
    \A i \in 1..Len(tokens) :
        tokens[i].type # "END_OF_FILE"
            => tokens[i].start + tokens[i].length <= Narrow(src_length)

\* C4: create_lexer succeeds for a source of length <= 2^32 - 1, fails for a
\* longer one, and never cuts the length of the source down to its low 32 bits.
C4_OversizedRefused ==
    /\ pc = "error" => WideGreater(src_size, UINT32_MAX)
    /\ pc \in {"lexing", "done"} => ~WideGreater(src_size, UINT32_MAX)
    /\ pc \in {"lexing", "done"} => src_length = src_size

\* C5: tokenize never emits a token of kind UNKNOWN.
C5_NoUnknownToken ==
    \A i \in 1..Len(tokens) : tokens[i].type # "UNKNOWN"

C7_ShiftIsOneToken ==
    (pc = "done"
     /\ src = B(<<"a", "+", "=", "b", "<", "<", "=", "c", ">", ">", "d">>))
        => types(tokens) = << "IDENTIFIER", "PLUS_EQUAL", "IDENTIFIER",
                              "LEFT_SHIFT_EQUAL", "IDENTIFIER", "RIGHT_SHIFT",
                              "IDENTIFIER", "END_OF_FILE" >>

\* C8: a string literal that the end of the buffer, or a newline, cuts before
\* any closing quote is emitted as a STR_LITERAL that carries the
\* UnterminatedString flag.  The literals taken here are those with no
\* backslash before the cut, so that no escape is in play.
C8_UnterminatedFlagged ==
    \A i \in 1..Len(tokens) :
        (/\ tokens[i].type = "STR_LITERAL"
         /\ LET cut == ScanWhile(tokens[i].start + 1, Narrow(src_length),
                                 {k \in (tokens[i].start + 1)..(Narrow(src_length) - 1) :
                                     At(src, k) \in {34, 92, 10}})
            IN  cut >= Narrow(src_length) \/ At(src, cut) = 10)
        => "UNTERMINATED_STRING" \in tokens[i].flags

\* C9: round trip: the bytes of an emitted token other than END_OF_FILE,
\* tokenized as a source of their own, give one token of the same kind and
\* then END_OF_FILE.
C9_RoundTrip ==
    pc = "done" =>
        \A i \in 1..Len(tokens), pe \in PastEnd(impl) :
            (/\ tokens[i].type # "END_OF_FILE"
             /\ tokens[i].start + tokens[i].length <= Narrow(src_length))
            => \E r \in {tokenize(impl, Slice(src, tokens[i].start, tokens[i].length), pe)} :
                   /\ r.returned
                   /\ types(r.lx.tokens) = << tokens[i].type, "END_OF_FILE" >>

(***************************************************************************)
(* The token matcher of the parser (match_token, match_tokens and the      *)
(* vector comparison token_compare).  A token kind is its byte,            *)
(* static_cast<uint8_t>(token_i).                                          *)
(***************************************************************************)
\* The bytes of a vector: 32 in a __m256i (x64), 16 in a uint8x16_t (ARM64).
VectorWidth(a) == IF a = "X64" THEN 32 ELSE 16

\* The vector one iteration of token_compare loads at offset i: the width
\* bytes at types + i when that many remain, else the remaining ones copied
\* into a buffer of zeros.
compare_vec(types_, count, i, width) ==
    [k \in 0..(width - 1) |->
        IF (IF width < count - i THEN width ELSE count - i) = width
        THEN types_[i + k + 1]
        ELSE IF k < count - i THEN types_[i + k + 1] ELSE 0]

\* The byte-wise equality of the two vectors, folded: whether any lane is equal.
compare_mask(current, vec) == \E k \in DOMAIN vec : vec[k] = current

RECURSIVE token_compare_loop(_, _, _, _, _)
token_compare_loop(current, types_, count, i, width) ==
    IF i < count
    THEN IF compare_mask(current, compare_vec(types_, count, i, width))
         THEN TRUE
         ELSE token_compare_loop(current, types_, count, i + width, width)
    ELSE FALSE

token_compare(a, current, types_, count) ==
    token_compare_loop(current, types_, count, 0, VectorWidth(a))

\* The loop of match_tokens in a build for neither architecture.
linear_scan(current, types_, count) == \E i \in 0..(count - 1) : current = types_[i + 1]

\* match_token(ctx, type): the status, and ctx->state.pos after the call.
match_token(toks, pos, type) ==
    IF pos >= Len(toks) THEN [status |-> "FAILURE", pos |-> pos]
    ELSE IF toks[pos + 1] = type THEN [status |-> "SUCCESS", pos |-> pos + 1]
    ELSE [status |-> "FAILURE", pos |-> pos]

\* match_tokens(ctx, types, count): the status, ctx->state.pos after the
\* call, and what the search for the current kind gave.
match_tokens(a, toks, pos, types_, count) ==
    IF pos >= Len(toks)
    THEN [status |-> "FAILURE", pos |-> pos, searched |-> FALSE, found |-> FALSE]
    ELSE IF (IF a \in {"X64", "ARM64"}
             THEN token_compare(a, toks[pos + 1], types_, count)
             ELSE linear_scan(toks[pos + 1], types_, count))
    THEN [status |-> "SUCCESS", pos |-> pos + 1, searched |-> TRUE, found |-> TRUE]
    ELSE [status |-> "FAILURE", pos |-> pos, searched |-> TRUE, found |-> FALSE]

(***************************************************************************)
(* The inputs of the matcher.                                              *)
(***************************************************************************)
MaxCount == 33

Kinds == {0, 1, 2}

\* The kinds of the token list of a parse context.
ContextTypes == {<<>>, <<0>>, <<1>>, <<0, 1>>, <<1, 0>>, <<2, 1, 0>>}

\* The candidate sets: count kinds, all 2 but for the one at the first or at
\* the last place.
Candidates ==
    UNION { { [i \in 1..count |-> IF i = p THEN a ELSE 2] : p \in {1, count}, a \in Kinds } :
            count \in 0..MaxCount }

(***************************************************************************)
(* The matcher as a state machine.                                         *)
(***************************************************************************)
InitMatch ==
    /\ impl = "parser_h"
    /\ src = <<>>
    /\ src_size = Wide(0)
    /\ past_end = 0
    /\ src_length = Wide(0)
    /\ current_pos = 0
    /\ tokens = <<>>
    /\ line_starts = <<>>
    /\ template_state = NoTemplate
    /\ pc = "start"
    /\ arch \in {"X64", "ARM64", "PORTABLE"}
    /\ ctx_types \in ContextTypes
    /\ ctx_pos = 0
    /\ last_match = NoMatch
    /\ ParserIdle
    /\ last_peek = NoPeek

MatchToken ==
    /\ \E type \in Kinds : \E r \in {match_token(ctx_types, ctx_pos, type)} :
        /\ ctx_pos' = r.pos
        /\ last_match' = [op |-> "match_token", type |-> type, status |-> r.status]
    /\ UNCHANGED << arch, ctx_types, lexer_vars, parse_vars, last_peek >>

MatchTokens ==
    /\ \E types_ \in Candidates :
       \E r \in {match_tokens(arch, ctx_types, ctx_pos, types_, Len(types_))} :
        /\ ctx_pos' = r.pos
        /\ last_match' = [op |-> "match_tokens", pos |-> ctx_pos, types |-> types_,
                          count |-> Len(types_), searched |-> r.searched,
                          found |-> r.found, status |-> r.status]
    /\ UNCHANGED << arch, ctx_types, lexer_vars, parse_vars, last_peek >>

NextMatch == MatchToken \/ MatchTokens

SpecMatch == InitMatch /\ [][NextMatch]_vars

(***************************************************************************)
(* Properties of the matcher.                                              *)
(***************************************************************************)
\* C10: token_compare(current, types, count) returns true exactly when
\* current equals types[i] for some i < count: it gives what the linear scan
\* gives, for every kind and every count.
C10_CompareIsLinearScan ==
    (last_match.op = "match_tokens" /\ last_match.searched
     /\ arch \in {"X64", "ARM64"})
        => last_match.found
             = linear_scan(ctx_types[last_match.pos + 1], last_match.types,
                           last_match.count)

(***************************************************************************)
(* The parser (the parser.cpp part of src/frontend/include/parser.h,       *)
(* lines 217-1405).  The recursive descent is run as a machine with an     *)
(* explicit call stack: a frame per active production, a step per stretch  *)
(* of a production between two calls of other productions.  match_token,   *)
(* create_node, destroy_node and sync_error are run inside the step that   *)
(* calls them.                                                             *)
(*                                                                         *)
(* A configuration c holds what a step reads and writes:                   *)
(*   c.ctx    the parse_context: state.pos, state.in_error, current,       *)
(*            scope_stack                                                  *)
(*   c.heap   the ir_node objects in the order of their allocation; the    *)
(*            pointer to the n-th is n, nullptr is 0; freed counts the     *)
(*            deletes of the object                                        *)
(*   c.stack  the frames, the innermost last                               *)
(*   c.ret    the status the production that returned last gave            *)
(*   c.toks, c.starts   ctx->tokens->types and ctx->tokens->starts         *)
(*   c.ub     whether the step went through undefined behaviour (a delete  *)
(*            of a deleted node, a write to one, a read outside a vector)  *)
(***************************************************************************)
\* The range of parse_context::state.pos, a bit-field of 24 bits.
PosRange == 16777216

Top(c) == c.stack[Len(c.stack)]

\* The frame of a production entered at the cursor of c; arg is
\* has_visibility for parse_method and parse_field.
NewFrame(c, fn, arg) ==
    [fn |-> fn, pc |-> "entry", entry |-> c.ctx.pos, pos_backup |-> c.ctx.pos,
     node |-> 0, node2 |-> 0, node3 |-> 0, arg |-> arg, open |-> 0]

\* The call of production fn; the caller goes on at back when it returns.
Call(c, fn, arg, back) ==
    [c EXCEPT !.stack = Append([@ EXCEPT ![Len(@)].pc = back], NewFrame(c, fn, arg))]

\* return status;
Return(c, status) ==
    [c EXCEPT !.stack = SubSeq(@, 1, Len(@) - 1),
              !.ret = status,
              !.last_return = [fn |-> Top(c).fn, status |-> status,
                               entry |-> Top(c).entry, pos |-> c.ctx.pos],
              !.members = IF Top(c).fn = "parse_class_member" /\ status = "SUCCESS"
                          THEN @ + 1 ELSE @]

SetPos(c, p) == [c EXCEPT !.ctx.pos = p % PosRange]
SetCurrent(c, n) == [c EXCEPT !.ctx.current = n]
SetNode(c, n) == [c EXCEPT !.stack[Len(c.stack)].node = n]

\* match_token(ctx, type) == SUCCESS
Matches(c, type) == match_token(c.toks, c.ctx.pos, type).status = "SUCCESS"

\* the context after match_token(ctx, type)
Moved(c, type) == SetPos(c, match_token(c.toks, c.ctx.pos, type).pos)

\* match_token(ctx, t1) == SUCCESS || match_token(ctx, t2) == SUCCESS || ...
MatchesAny(c, kinds) == \E t \in kinds : Matches(c, t)

\* the context after that chain: the one match that succeeded moved the cursor
MovedAny(c, kinds) == IF MatchesAny(c, kinds) THEN SetPos(c, c.ctx.pos + 1) ELSE c

\* The pointer the next create_node returns.
NewNode(c) == Len(c.heap) + 1

\* new ir_node(): the union value is zero (no text, op_val 0); token is the
\* place in the token list of the token whose text the node holds, 0 when it
\* holds none; value is the member of the union that was written ("none"
\* | "str_val" | "num_val" | "bool_true" | "bool_false" | "op_val"), and
\* text_deleted counts the delete[] of value.str_val.text.
create_node(c, type) ==
    [c EXCEPT !.heap = Append(@, [type |-> type, children |-> <<>>, freed |-> 0,
                                  text |-> <<>>, token |-> 0, op |-> "NONE",
                                  value |-> "none", text_deleted |-> 0])]

\* n->value.<member> = ...
SetValue(c, n, member) == [c EXCEPT !.heap[n].value = member]

\* get_token_value(src, tokens, pos)
get_token_value(s, toks, pos) == Slice(s, toks[pos + 1].start, toks[pos + 1].length)

\* The text of the token before the cursor is copied into node n:
\*     n->value.str_val.text = new char[length]; n->value.str_val.length = length;
\*     memcpy(n->value.str_val.text, value.data(), value.length());
str_val(c, n) ==
    [c EXCEPT !.heap[n].text = get_token_value(src, tokens, c.ctx.pos - 1),
              !.heap[n].token = c.ctx.pos,
              !.heap[n].value = "str_val"]

op_val_mutant(c, back) ==
    IF c.ctx.pos - back \in 1..Len(c.toks) THEN c.toks[c.ctx.pos - back]
    ELSE "NONE"

\* ctx->tokens->types[ctx->state.pos - back], the kind an operator node keeps
\* in op_val
op_val(c, back) ==
    IF c.ctx.pos - back + 1 \in 1..Len(c.toks) THEN c.toks[c.ctx.pos - back + 1]
    ELSE "NONE"

SetOp(c, n, op) == [c EXCEPT !.heap[n].op = op, !.heap[n].value = "op_val"]

\* The delete[] of destroy_node: value.str_val.text is deleted for every
\* NODE_IDENTIFIER and NODE_LITERAL, whatever member of the union was written.
destroy_text(node) ==
    IF node.type \in {"NODE_IDENTIFIER", "NODE_LITERAL"} THEN node.text_deleted + 1
    ELSE node.text_deleted

\* The loop of destroy_node over its std::stack nodes (the top is the last
\* element).  A node reached again after its delete is deleted again; its
\* child vector was cleared before the delete and is read as empty.
RECURSIVE destroy_loop(_, _)
destroy_loop(h, nodes) ==
    IF nodes = <<>> THEN h
    ELSE LET current == nodes[Len(nodes)]
             children == IF h[current].freed > 0 THEN <<>>
                         ELSE SelectSeq(h[current].children, LAMBDA child : child # 0)
         IN  destroy_loop([h EXCEPT ![current].freed = @ + 1,
                                    ![current].text_deleted = destroy_text(h[current]),
                                    ![current].children = <<>>],
                          SubSeq(nodes, 1, Len(nodes) - 1) \o children)

\* The heap after destroy_node(node) was run on h.
destroy_heap(h, node) == IF node = 0 THEN h ELSE destroy_loop(h, <<node>>)

\* destroy_node(node), given the heap h2 it leaves: a second delete of a
\* node, and the delete[] of a text pointer that is the byte of a true
\* bool_val, are undefined.
destroy_done(c, h2) ==
    [c EXCEPT !.heap = h2,
              !.ub = @ \/ \E n \in 1..Len(h2) :
                              \/ h2[n].freed > 1 /\ h2[n].freed # c.heap[n].freed
                              \/ h2[n].value = "bool_true"
                                    /\ h2[n].text_deleted # c.heap[n].text_deleted]

destroy_node(c, node) == destroy_done(c, destroy_heap(c.heap, node))

\* parent->children.push_back(child)
push_back(c, parent, child) ==
    IF parent = 0 THEN [c EXCEPT !.ub = TRUE]
    ELSE [c EXCEPT !.heap[parent].children = Append(@, child),
                   !.ub = @ \/ c.heap[parent].freed > 0]

\* The failure exit of a production that owns a node:
\*     destroy_node(node); ctx->state.pos = pos_backup; return FAILURE;
Fail(c) ==
    Return(SetPos(destroy_node(c, Top(c).node), Top(c).pos_backup), "FAILURE")

\* The creation of the NODE_IDENTIFIER that holds the text of the token just
\* matched, and its push_back onto the children of the node of the frame.
name_node(c) ==
    push_back(str_val(create_node(c, "NODE_IDENTIFIER"), NewNode(c)), Top(c).node,
              NewNode(c))

\* The loop of sync_error, entered with in_error set.
RECURSIVE sync_error_loop(_, _)
sync_error_loop(c, sync_token) ==
    IF c.ctx.pos < Len(c.toks)
    THEN IF Matches(c, sync_token)
         THEN [c |-> [Moved(c, sync_token) EXCEPT !.ctx.in_error = 0],
               found |-> TRUE]
         ELSE sync_error_loop(SetPos(c, c.ctx.pos + 1), sync_token)
    ELSE [c |-> c, found |-> FALSE]

sync_error_status_mutant(found) == "SUCCESS"

\* What sync_error returns: SUCCESS from inside the loop, FAILURE after it.
sync_error_status(found) == IF found THEN "SUCCESS" ELSE "FAILURE"

\* return sync_error(ctx, sync_token); in the production of the top frame,
\* r being what the loop of sync_error gave.  last_sync keeps the call: the
\* production and the brace that opens its list, the cursor before and
\* after, the depth of the call stack, and whether this call or one before
\* it came to the end of the tokens.
sync_error_return(c, r) ==
    Return([r.c EXCEPT !.last_sync =
                [fn |-> Top(c).fn, open |-> Top(c).open, from |-> c.ctx.pos,
                 pos |-> r.c.ctx.pos, found |-> r.found,
                 status |-> sync_error_status(r.found),
                 depth |-> Len(c.stack),
                 exhausted |-> c.last_sync.exhausted \/ ~r.found]],
           sync_error_status(r.found))

sync_error(c, sync_token) ==
    sync_error_return(c, sync_error_loop([c EXCEPT !.ctx.in_error = 1], sync_token))

(***************************************************************************)
(* The productions.  Each operator is the step of its production from the  *)
(* place Top(c).pc: "entry" is the call, the other places are the returns  *)
(* of the productions it called.                                           *)
(***************************************************************************)
\* return parse_x(ctx);
tail_return(c) == Return(c, c.ret)

parse_expression(c) ==
    CASE Top(c).pc = "entry" -> Call(c, "parse_assignment", FALSE, "tail")
      [] Top(c).pc = "tail" -> tail_return(c)

\* parse_assignment after "left = parse_logical_or()" succeeded and EQUAL
\* matched: the nodes assign and right, and the call for the right side.
parse_assignment_right(c) ==
    LET assign == NewNode(c)
        c1 == push_back(SetOp(create_node(c, "NODE_BINARY_OP"), assign, "EQUAL"),
                        assign, Top(c).node)
        right == NewNode(c1)
        c2 == SetCurrent(create_node(c1, "NODE_EXPRESSION"), right)
    IN  Call([c2 EXCEPT !.stack[Len(c.stack)].node2 = assign,
                        !.stack[Len(c.stack)].node3 = right],
             "parse_assignment", FALSE, "after_right")

\* The failure exit after the right side failed.
parse_assignment_fail(c) ==
    Return(SetPos(destroy_node(destroy_node(c, Top(c).node2), Top(c).node3),
                  Top(c).pos_backup),
           "FAILURE")

parse_assignment(c) ==
    CASE Top(c).pc = "entry" ->
           Call(SetNode(SetCurrent(create_node(c, "NODE_EXPRESSION"), NewNode(c)),
                        NewNode(c)),
                "parse_logical_or", FALSE, "after_left")
      [] Top(c).pc = "after_left" ->
           IF c.ret = "FAILURE" THEN Fail(c)
           ELSE IF Matches(c, "EQUAL")
           THEN parse_assignment_right(Moved(c, "EQUAL"))
           ELSE Return(c, "SUCCESS")
      [] Top(c).pc = "after_right" ->
           IF c.ret = "FAILURE" THEN parse_assignment_fail(c)
           ELSE Return(SetCurrent(push_back(c, Top(c).node2, Top(c).node3),
                                  Top(c).node2),
                       "SUCCESS")

\* The loop of a level of binary operators, at its test: ok is what the
\* condition of the while gave and moved the context it left.
binary_loop(c, sub, ok, moved, op) ==
    IF ok
    THEN Call(SetNode(push_back(SetOp(create_node(moved, "NODE_BINARY_OP"),
                                      NewNode(moved), op),
                                NewNode(moved), moved.ctx.current),
                      NewNode(moved)),
              sub, FALSE, "operand")
    ELSE Return(moved, "SUCCESS")

\* A level of binary operators over the production sub; op is the kind the
\* node of the operator keeps.
binary_level(c, sub, ok, moved, op) ==
    CASE Top(c).pc = "entry" -> Call(c, sub, FALSE, "first")
      [] Top(c).pc = "first" ->
           IF c.ret = "FAILURE" THEN Return(c, "FAILURE")
           ELSE binary_loop(c, sub, ok, moved, op)
      [] Top(c).pc = "operand" ->
           IF c.ret = "FAILURE" THEN Fail(c)
           ELSE binary_loop(SetCurrent(push_back(c, Top(c).node, c.ctx.current),
                                       Top(c).node),
                            sub, ok,
                            SetCurrent(push_back(moved, Top(c).node, c.ctx.current),
                                       Top(c).node),
                            op)

parse_logical_or(c) ==
    binary_level(c, "parse_logical_and", Matches(c, "OR"), Moved(c, "OR"), "OR")

parse_logical_and(c) ==
    binary_level(c, "parse_equality", Matches(c, "AND"), Moved(c, "AND"),
                 "AND")

\* (match BANG && match EQUAL) of the condition of parse_equality
equality_bang(c) ==
    IF Matches(c, "BANG")
    THEN [ok |-> Matches(Moved(c, "BANG"), "EQUAL"),
          c |-> Moved(Moved(c, "BANG"), "EQUAL")]
    ELSE [ok |-> FALSE, c |-> c]

\* (match EQUAL && match EQUAL) || (match BANG && match EQUAL)
equality_condition(c) ==
    IF Matches(c, "EQUAL")
    THEN IF Matches(Moved(c, "EQUAL"), "EQUAL")
         THEN [ok |-> TRUE, c |-> Moved(Moved(c, "EQUAL"), "EQUAL")]
         ELSE equality_bang(Moved(c, "EQUAL"))
    ELSE equality_bang(c)

parse_equality(c) ==
    binary_level(c, "parse_comparison", equality_condition(c).ok,
                 equality_condition(c).c, op_val(equality_condition(c).c, 2))

parse_comparison(c) ==
    binary_level(c, "parse_term", MatchesAny(c, {"LESS", "GREATER"}),
                 MovedAny(c, {"LESS", "GREATER"}),
                 op_val(MovedAny(c, {"LESS", "GREATER"}), 1))

parse_term(c) ==
    binary_level(c, "parse_factor", MatchesAny(c, {"PLUS", "MINUS"}),
                 MovedAny(c, {"PLUS", "MINUS"}),
                 op_val(MovedAny(c, {"PLUS", "MINUS"}), 1))

parse_factor(c) ==
    binary_level(c, "parse_unary", MatchesAny(c, {"STAR", "SLASH", "PERCENT"}),
                 MovedAny(c, {"STAR", "SLASH", "PERCENT"}),
                 op_val(MovedAny(c, {"STAR", "SLASH", "PERCENT"}), 1))

parse_unary(c) ==
    CASE Top(c).pc = "entry" ->
           IF MatchesAny(c, {"BANG", "MINUS"})
           THEN Call(SetNode(SetOp(create_node(MovedAny(c, {"BANG", "MINUS"}),
                                               "NODE_UNARY_OP"),
                                   NewNode(c),
                                   op_val(MovedAny(c, {"BANG", "MINUS"}), 1)),
                             NewNode(c)),
                     "parse_unary", FALSE, "operand")
           ELSE Call(c, "parse_primary", FALSE, "tail")
      [] Top(c).pc = "operand" ->
           IF c.ret = "FAILURE" THEN Fail(c)
           ELSE Return(SetCurrent(push_back(c, Top(c).node, c.ctx.current),
                                  Top(c).node),
                       "SUCCESS")
      [] Top(c).pc = "tail" -> tail_return(c)

\* A primary that is one token: the node of kind type is the current one,
\* and member is what was written to its union.
primary_node(c, type, member) ==
    Return(SetCurrent(SetValue(create_node(c, type), NewNode(c), member), NewNode(c)),
           "SUCCESS")

\* literal->value.bool_val = types[pos - 1] == TRUE
bool_val(c) == IF op_val(c, 1) = "TRUE" THEN "bool_true" ELSE "bool_false"

\* A primary that is a STR_LITERAL or an IDENTIFIER: the node holds the text.
primary_text(c, type) ==
    Return(SetCurrent(str_val(create_node(c, type), NewNode(c)), NewNode(c)),
           "SUCCESS")

\* The index of the read ctx->tokens->starts[start] in the NUM_LITERAL branch
\* of parse_primary: start is starts[pos - 1], the byte offset of the token
\* that was matched.
number_start_index(c) == c.starts[c.ctx.pos]

\* The NUM_LITERAL branch of parse_primary, the token matched: numStr is
\* built from ctx->tokens->starts[start], start being the byte offset of the
\* token, which is a read outside the vector when start is not an index.
primary_number(c) ==
    primary_node([c EXCEPT !.ub = @ \/ number_start_index(c) >= Len(c.starts)],
                 "NODE_LITERAL", "num_val")

parse_primary(c) ==
    CASE Top(c).pc = "entry" ->
           IF MatchesAny(c, {"TRUE", "FALSE"})
           THEN primary_node(MovedAny(c, {"TRUE", "FALSE"}), "NODE_LITERAL",
                             bool_val(MovedAny(c, {"TRUE", "FALSE"})))
           ELSE IF Matches(c, "NUM_LITERAL")
           THEN primary_number(Moved(c, "NUM_LITERAL"))
           ELSE IF Matches(c, "STR_LITERAL")
           THEN primary_text(Moved(c, "STR_LITERAL"), "NODE_LITERAL")
           ELSE IF Matches(c, "IDENTIFIER")
           THEN primary_text(Moved(c, "IDENTIFIER"), "NODE_IDENTIFIER")
           ELSE IF Matches(c, "LEFT_PAREN")
           THEN Call(Moved(c, "LEFT_PAREN"), "parse_expression", FALSE, "paren")
           ELSE Return(SetPos(c, Top(c).pos_backup), "FAILURE")
      [] Top(c).pc = "paren" ->
           IF c.ret = "SUCCESS" /\ Matches(c, "RIGHT_PAREN")
           THEN Return(Moved(c, "RIGHT_PAREN"), "SUCCESS")
           ELSE Return(SetPos(c, Top(c).pos_backup), "FAILURE")

parse_statement(c) ==
    CASE Top(c).pc = "entry" ->
           IF Matches(c, "IF")
           THEN Call(Moved(c, "IF"), "parse_if_statement", FALSE, "tail")
           ELSE IF Matches(c, "FOR")
           THEN Call(Moved(c, "FOR"), "parse_for_loop", FALSE, "tail")
           ELSE IF Matches(c, "WHILE")
           THEN Call(Moved(c, "WHILE"), "parse_while_loop", FALSE, "tail")
           ELSE IF Matches(c, "RETURN")
           THEN Call(Moved(c, "RETURN"), "parse_return_statement", FALSE, "tail")
           ELSE IF MatchesAny(c, {"VAR", "CONST"})
           THEN Call(MovedAny(c, {"VAR", "CONST"}), "parse_variable", FALSE, "tail")
           ELSE Call(c, "parse_expression", FALSE, "tail")
      [] Top(c).pc = "tail" -> tail_return(c)

\* The entry of a production that creates its node first:
\*     auto *node = create_node(type); ctx->current = node;
own_node(c, type) == SetNode(SetCurrent(create_node(c, type), NewNode(c)), NewNode(c))

\* node->children.push_back(ctx->current), node being the node of the frame
push_current(c) == push_back(c, Top(c).node, c.ctx.current)

parse_if_statement(c) ==
    CASE Top(c).pc = "entry" ->
           IF Matches(own_node(c, "NODE_IF"), "LEFT_PAREN")
           THEN Call(Moved(own_node(c, "NODE_IF"), "LEFT_PAREN"),
                     "parse_expression", FALSE, "condition")
           ELSE Fail(own_node(c, "NODE_IF"))
      [] Top(c).pc = "condition" ->
           IF c.ret = "FAILURE" \/ ~Matches(c, "RIGHT_PAREN") THEN Fail(c)
           ELSE Call(push_current(Moved(c, "RIGHT_PAREN")),
                     "parse_statement", FALSE, "then")
      [] Top(c).pc = "then" ->
           IF c.ret = "FAILURE" THEN Fail(c)
           ELSE IF Matches(c, "ELSE")
           THEN Call(Moved(push_current(c), "ELSE"), "parse_statement", FALSE, "else")
           ELSE Return(push_current(c), "SUCCESS")
      [] Top(c).pc = "else" ->
           IF c.ret = "FAILURE" THEN Fail(c)
           ELSE Return(push_current(c), "SUCCESS")

\* parse_for_loop from its increment clause on.
for_increment(c) ==
    IF Matches(c, "RIGHT_PAREN")
    THEN Call(Moved(c, "RIGHT_PAREN"), "parse_statement", FALSE, "body")
    ELSE Call(c, "parse_expression", FALSE, "increment")

\* parse_for_loop from its condition clause on.
for_condition(c) ==
    IF Matches(c, "SEMICOLON") THEN for_increment(Moved(c, "SEMICOLON"))
    ELSE Call(c, "parse_expression", FALSE, "condition")

\* parse_for_loop from its initializer clause on.
for_initializer(c) ==
    IF Matches(c, "SEMICOLON") THEN for_condition(Moved(c, "SEMICOLON"))
    ELSE Call(c, "parse_variable", FALSE, "initializer")

parse_for_loop(c) ==
    CASE Top(c).pc = "entry" ->
           IF Matches(own_node(c, "NODE_LOOP"), "LEFT_PAREN")
           THEN for_initializer(Moved(own_node(c, "NODE_LOOP"), "LEFT_PAREN"))
           ELSE Fail(own_node(c, "NODE_LOOP"))
      [] Top(c).pc = "initializer" ->
           IF c.ret = "FAILURE" THEN Fail(c)
           ELSE for_condition(push_current(c))
      [] Top(c).pc = "condition" ->
           IF c.ret = "FAILURE" \/ ~Matches(c, "SEMICOLON") THEN Fail(c)
           ELSE for_increment(push_current(Moved(c, "SEMICOLON")))
      [] Top(c).pc = "increment" ->
           IF c.ret = "FAILURE" \/ ~Matches(c, "RIGHT_PAREN") THEN Fail(c)
           ELSE Call(push_current(Moved(c, "RIGHT_PAREN")),
                     "parse_statement", FALSE, "body")
      [] Top(c).pc = "body" ->
           IF c.ret = "FAILURE" THEN Fail(c)
           ELSE Return(push_current(c), "SUCCESS")

parse_while_loop(c) ==
    CASE Top(c).pc = "entry" ->
           IF Matches(own_node(c, "NODE_LOOP"), "LEFT_PAREN")
           THEN Call(Moved(own_node(c, "NODE_LOOP"), "LEFT_PAREN"),
                     "parse_expression", FALSE, "condition")
           ELSE Fail(own_node(c, "NODE_LOOP"))
      [] Top(c).pc = "condition" ->
           IF c.ret = "FAILURE" THEN Fail(c)
           ELSE IF ~Matches(c, "RIGHT_PAREN") THEN Fail(push_current(c))
           ELSE Call(Moved(push_current(c), "RIGHT_PAREN"),
                     "parse_statement", FALSE, "body")
      [] Top(c).pc = "body" ->
           IF c.ret = "FAILURE" THEN Fail(c)
           ELSE Return(push_current(c), "SUCCESS")

parse_return_statement(c) ==
    CASE Top(c).pc = "entry" ->
           IF Matches(own_node(c, "NODE_RETURN"), "SEMICOLON")
           THEN Return(Moved(own_node(c, "NODE_RETURN"), "SEMICOLON"), "SUCCESS")
           ELSE Call(own_node(c, "NODE_RETURN"), "parse_expression", FALSE, "value")
      [] Top(c).pc = "value" ->
           IF c.ret = "FAILURE" THEN Fail(c)
           ELSE IF ~Matches(c, "SEMICOLON") THEN Fail(push_current(c))
           ELSE Return(Moved(push_current(c), "SEMICOLON"), "SUCCESS")

\* The end of parse_variable and of parse_field: the semicolon.
declaration_end(c) ==
    IF Matches(c, "SEMICOLON") THEN Return(Moved(c, "SEMICOLON"), "SUCCESS")
    ELSE Fail(c)

\* The optional initializer of parse_variable and of parse_field.
declaration_initializer(c) ==
    IF Matches(c, "EQUAL")
    THEN Call(Moved(c, "EQUAL"), "parse_expression", FALSE, "initializer")
    ELSE declaration_end(c)

\* parse_variable after its node was created.
variable_name(c) ==
    IF ~Matches(c, "IDENTIFIER") THEN Fail(c)
    ELSE IF Matches(name_node(Moved(c, "IDENTIFIER")), "COLON")
    THEN Call(Moved(name_node(Moved(c, "IDENTIFIER")), "COLON"),
              "parse_type", FALSE, "type")
    ELSE declaration_initializer(name_node(Moved(c, "IDENTIFIER")))

parse_variable(c) ==
    CASE Top(c).pc = "entry" -> variable_name(own_node(c, "NODE_VARIABLE"))
      [] Top(c).pc = "type" ->
           IF c.ret = "FAILURE" THEN Fail(c)
           ELSE declaration_initializer(push_current(c))
      [] Top(c).pc = "initializer" ->
           IF c.ret = "FAILURE" THEN Fail(c)
           ELSE declaration_end(push_current(c))

basic_types == {"U8", "I8", "U16", "I16", "U32", "I32", "U64", "I64",
                "F32", "F64", "STRING", "BOOLEAN", "VOID", "AUTO"}

\* parse_type after the name of the type: the optional generic parameters.
type_generic(c) ==
    IF Matches(c, "LESS")
    THEN Call(Moved(c, "LESS"), "parse_generic_params", FALSE, "generic")
    ELSE Return(c, "SUCCESS")

\* The node of a basic type: its text is one char, the value of the kind
\* of the token (static_cast<char>(basic_type)), not the text of the token.
basic_type_node(c) ==
    push_back([create_node(c, "NODE_IDENTIFIER") EXCEPT
                   !.heap[NewNode(c)].text = <<op_val(c, 1)>>,
                   !.heap[NewNode(c)].token = c.ctx.pos,
                   !.heap[NewNode(c)].value = "str_val"],
              Top(c).node, NewNode(c))

\* parse_type after its node was created.
type_name(c) ==
    IF MatchesAny(c, basic_types)
    THEN type_generic(basic_type_node(MovedAny(c, basic_types)))
    ELSE IF Matches(c, "IDENTIFIER") THEN type_generic(name_node(Moved(c, "IDENTIFIER")))
    ELSE Fail(c)

parse_type(c) ==
    CASE Top(c).pc = "entry" -> type_name(own_node(c, "NODE_TYPE"))
      [] Top(c).pc = "generic" ->
           IF c.ret = "FAILURE" \/ ~Matches(c, "GREATER") THEN Fail(c)
           ELSE Return(push_current(Moved(c, "GREATER")), "SUCCESS")

parse_generic_params(c) ==
    CASE Top(c).pc = "entry" ->
           Call(own_node(c, "NODE_TYPE"), "parse_type", FALSE, "param")
      [] Top(c).pc = "param" ->
           IF c.ret = "FAILURE" THEN Fail(c)
           ELSE IF Matches(c, "COMMA")
           THEN Call(Moved(push_current(c), "COMMA"), "parse_type", FALSE, "param")
           ELSE Return(push_current(c), "SUCCESS")

\* parse_method after the parameter list.
method_return_type(c) ==
    IF Matches(c, "MINUS")
    THEN IF Matches(Moved(c, "MINUS"), "GREATER")
         THEN Call(Moved(Moved(c, "MINUS"), "GREATER"), "parse_type", FALSE,
                   "return_type")
         ELSE Fail(Moved(c, "MINUS"))
    ELSE Call(c, "parse_block", FALSE, "body")

\* The test of the loop over the parameters of parse_method.
method_parameters(c) ==
    IF Matches(c, "RIGHT_PAREN") THEN method_return_type(Moved(c, "RIGHT_PAREN"))
    ELSE Call(c, "parse_variable", FALSE, "parameter")

\* parse_method and parse_field after the node and its visibility child
\* were created: the name of the member.
member_name(c, after) ==
    IF ~Matches(c, "IDENTIFIER") THEN Fail(c)
    ELSE IF ~Matches(name_node(Moved(c, "IDENTIFIER")), after)
    THEN Fail(name_node(Moved(c, "IDENTIFIER")))
    ELSE Moved(name_node(Moved(c, "IDENTIFIER")), after)

\* auto *visibility_node = create_node(visibility); a NODE_IDENTIFIER
\* without text, pushed onto the children of the node of the frame.
visibility_node(c) ==
    push_back(create_node(c, "NODE_IDENTIFIER"), Top(c).node, NewNode(c))

\* The node of a member and, with has_visibility, its visibility child.
member_node(c, type) ==
    IF Top(c).arg THEN visibility_node(own_node(c, type)) ELSE own_node(c, type)

\* Whether the name of the member and the token after it are there.
member_named(c, after) ==
    Matches(c, "IDENTIFIER") /\ Matches(Moved(c, "IDENTIFIER"), after)

parse_method(c) ==
    CASE Top(c).pc = "entry" ->
           IF member_named(c, "LEFT_PAREN")
           THEN method_parameters(member_name(member_node(c, "NODE_METHOD"),
                                              "LEFT_PAREN"))
           ELSE member_name(member_node(c, "NODE_METHOD"), "LEFT_PAREN")
      [] Top(c).pc = "parameter" ->
           IF c.ret = "FAILURE" THEN Fail(c)
           ELSE IF ~MatchesAny(c, {"COMMA", "RIGHT_PAREN"}) THEN Fail(push_current(c))
           ELSE method_parameters(MovedAny(push_current(c), {"COMMA", "RIGHT_PAREN"}))
      [] Top(c).pc = "return_type" ->
           IF c.ret = "FAILURE" THEN Fail(c)
           ELSE Call(push_current(c), "parse_block", FALSE, "body")
      [] Top(c).pc = "body" ->
           IF c.ret = "FAILURE" THEN Fail(c) ELSE Return(c, "SUCCESS")

parse_field(c) ==
    CASE Top(c).pc = "entry" ->
           IF member_named(c, "COLON")
           THEN Call(member_name(member_node(c, "NODE_FIELD"), "COLON"),
                     "parse_type", FALSE, "type")
           ELSE member_name(member_node(c, "NODE_FIELD"), "COLON")
      [] Top(c).pc = "type" ->
           IF c.ret = "FAILURE" THEN Fail(c)
           ELSE declaration_initializer(push_current(c))
      [] Top(c).pc = "initializer" ->
           IF c.ret = "FAILURE" THEN Fail(c)
           ELSE declaration_end(push_current(c))

visibilities == {"PUBLIC", "PRIVATE", "PROTECTED"}

\* parse_class_member after the visibility, has_visibility being known.
member_kind(c, has_visibility) ==
    IF Matches(c, "FUNCTION")
    THEN Call(Moved(c, "FUNCTION"), "parse_method", has_visibility, "tail")
    ELSE IF Matches(c, "VAR")
    THEN Call(Moved(c, "VAR"), "parse_field", has_visibility, "tail")
    ELSE Return(c, "FAILURE")

parse_class_member(c) ==
    CASE Top(c).pc = "entry" ->
           member_kind(MovedAny(c, visibilities), MatchesAny(c, visibilities))
      [] Top(c).pc = "tail" -> tail_return(c)

\* The test of the loop of parse_class_body and of parse_block over the
\* production item.
brace_loop(c, item) ==
    IF c.ctx.pos < Len(c.toks) /\ ~Matches(c, "RIGHT_BRACE")
    THEN Call(c, item, FALSE, "item")
    ELSE Return(Moved(c, "RIGHT_BRACE"), "SUCCESS")

\* The return of item into the loop.
brace_item(c, item) ==
    IF c.ret = "FAILURE" THEN sync_error(c, "RIGHT_BRACE")
    ELSE brace_loop(push_current(c), item)

\* The frame remembers the offset of the brace that opens its list.
SetOpen(c, p) == [c EXCEPT !.stack[Len(c.stack)].open = p]

\* auto *body_node = create_node(NODE_BLOCK); ctx->current->children.push_back(body_node);
class_body_node(c) ==
    SetNode(push_back(create_node(c, "NODE_BLOCK"), c.ctx.current, NewNode(c)),
            NewNode(c))

parse_class_body(c) ==
    CASE Top(c).pc = "entry" ->
           IF ~Matches(c, "LEFT_BRACE") THEN Return(c, "FAILURE")
           ELSE brace_loop(class_body_node(SetOpen(Moved(c, "LEFT_BRACE"), c.ctx.pos)),
                           "parse_class_member")
      [] Top(c).pc = "item" -> brace_item(c, "parse_class_member")

parse_block(c) ==
    CASE Top(c).pc = "entry" ->
           IF ~Matches(c, "LEFT_BRACE") THEN Return(c, "FAILURE")
           ELSE brace_loop(own_node(SetOpen(Moved(c, "LEFT_BRACE"), c.ctx.pos),
                                    "NODE_BLOCK"),
                           "parse_statement")
      [] Top(c).pc = "item" -> brace_item(c, "parse_statement")

\* parse_class after the name of the class.
class_generic(c) ==
    IF Matches(c, "LESS")
    THEN Call(Moved(c, "LESS"), "parse_generic_params", FALSE, "generic")
    ELSE Call(c, "parse_class_body", FALSE, "body")

\* parse_class after its node was created.
class_name(c) ==
    IF ~Matches(c, "IDENTIFIER") THEN Fail(c)
    ELSE class_generic(name_node(Moved(c, "IDENTIFIER")))

parse_class(c) ==
    CASE Top(c).pc = "entry" ->
           IF ~Matches(c, "CLASS") THEN Return(c, "FAILURE")
           ELSE class_name(own_node(Moved(c, "CLASS"), "NODE_CLASS"))
      [] Top(c).pc = "generic" ->
           IF c.ret = "FAILURE" \/ ~Matches(c, "GREATER") THEN Fail(c)
           ELSE Call(Moved(c, "GREATER"), "parse_class_body", FALSE, "body")
      [] Top(c).pc = "body" ->
           IF c.ret = "FAILURE" THEN Fail(c) ELSE Return(c, "SUCCESS")

\* create_parse_context(tokens)
create_parse_context ==
    [pos |-> 0, in_error |-> 0, depth |-> 0, current |-> 0, scope_stack |-> <<>>]

\* The nodes of scope_stack destroyed one after the other.
RECURSIVE destroy_scope_stack(_, _)
destroy_scope_stack(c, scope) ==
    IF scope = <<>> THEN c
    ELSE destroy_scope_stack(destroy_node(c, Head(scope)), Tail(scope))

\* destroy_parse_context(ctx)
destroy_parse_context(c) ==
    [destroy_node(destroy_scope_stack(c, c.ctx.scope_stack), c.ctx.current)
        EXCEPT !.ctx.scope_stack = <<>>, !.ctx.current = 0]

\* parse after parse_class returned: the result, and the context destroyed.
parse(c) ==
    IF c.ret = "SUCCESS" /\ c.ctx.in_error = 0
    THEN [destroy_parse_context(SetCurrent(c, 0))
             EXCEPT !.result = c.ctx.current, !.stack = <<>>]
    ELSE [destroy_parse_context(c) EXCEPT !.result = 0, !.stack = <<>>]
\* a class without members:
\*     class A { }
EmptyClass ==
    B(<<"c", "l", "a", "s", "s", " ", "A", " ", "{", " ", "}">>)

\* a class with one field:
\*     class A { var x: i32; }
OneField ==
    B(<<"c", "l", "a", "s", "s", " ", "A", " ", "{", " ", "v", "a", "r",
          " ", "x", ":", " ", "i", "3", "2", ";", " ", "}">>)

\* the class of the test ExpressionParsing:
\*     class Calculator
\*     {
\*     public function calc() -> i32
\*     {
\*     var a: i32 = 1 + 2 * 3;
\*     return a;
\*     }
\*     }
Calculator ==
    B(<<"c", "l", "a", "s", "s", " ", "C", "a", "l", "c", "u", "l", "a",
          "t", "o", "r", "NL", "{", "NL", "p", "u", "b", "l", "i", "c",
          " ", "f", "u", "n", "c", "t", "i", "o", "n", " ", "c", "a", "l",
          "c", "(", ")", " ", "-", ">", " ", "i", "3", "2", "NL", "{",
          "NL", "v", "a", "r", " ", "a", ":", " ", "i", "3", "2", " ", "=",
          " ", "1", " ", "+", " ", "2", " ", "*", " ", "3", ";", "NL", "r",
          "e", "t", "u", "r", "n", " ", "a", ";", "NL", "}", "NL", "}",
          "NL">>)

\* the keyword class and nothing else:
\*     class
ClassOnly ==
    B(<<"c", "l", "a", "s", "s">>)

\* a member that is no member, then a field:
\*     class A { x var y: i32; }
BadMemberThenField ==
    B(<<"c", "l", "a", "s", "s", " ", "A", " ", "{", " ", "x", " ", "v",
          "a", "r", " ", "y", ":", " ", "i", "3", "2", ";", " ", "}">>)

\* a member that is no member, then a method with a body:
\*     class A { x function f() { } }
BadMemberThenMethod ==
    B(<<"c", "l", "a", "s", "s", " ", "A", " ", "{", " ", "x", " ", "f",
          "u", "n", "c", "t", "i", "o", "n", " ", "f", "(", ")", " ", "{",
          " ", "}", " ", "}">>)

\* a member that is no member, then a method and a field:
\*     class A { x function f() { } var y: u8; }
BadMemberMethodField ==
    B(<<"c", "l", "a", "s", "s", " ", "A", " ", "{", " ", "x", " ", "f",
          "u", "n", "c", "t", "i", "o", "n", " ", "f", "(", ")", " ", "{",
          " ", "}", " ", "v", "a", "r", " ", "y", ":", " ", "u", "8", ";",
          " ", "}">>)

\* a visibility that no member follows:
\*     class A { public x }
VisibilityOnly ==
    B(<<"c", "l", "a", "s", "s", " ", "A", " ", "{", " ", "p", "u", "b",
          "l", "i", "c", " ", "x", " ", "}">>)

\* a member that is no member, and no closing brace:
\*     class A { x y
Unclosed ==
    B(<<"c", "l", "a", "s", "s", " ", "A", " ", "{", " ", "x", " ", "y">>)

\* a statement that fails in a block that is not closed:
\*     class A { function f() { return ) 
UnclosedBlock ==
    B(<<"c", "l", "a", "s", "s", " ", "A", " ", "{", " ", "f", "u", "n",
          "c", "t", "i", "o", "n", " ", "f", "(", ")", " ", "{", " ", "r",
          "e", "t", "u", "r", "n", " ", ")", " ">>)

\* a method whose body goes through if, else, while and return:
\*     class A { function f() { if (a < b) return; else while (!c) d if (a) -b; } }
Branches ==
    B(<<"c", "l", "a", "s", "s", " ", "A", " ", "{", " ", "f", "u", "n",
          "c", "t", "i", "o", "n", " ", "f", "(", ")", " ", "{", " ", "i",
          "f", " ", "(", "a", " ", "<", " ", "b", ")", " ", "r", "e", "t",
          "u", "r", "n", ";", " ", "e", "l", "s", "e", " ", "w", "h", "i",
          "l", "e", " ", "(", "!", "c", ")", " ", "d", " ", "i", "f", " ",
          "(", "a", ")", " ", "-", "b", ";", " ", "}", " ", "}">>)

\* a method with a parameter and two for loops:
\*     class A { private function f(p: u8;,) -> void { for (i = 0; i | j & k; i) (e) for (;;) 1 } }
Loops ==
    B(<<"c", "l", "a", "s", "s", " ", "A", " ", "{", " ", "p", "r", "i",
          "v", "a", "t", "e", " ", "f", "u", "n", "c", "t", "i", "o", "n",
          " ", "f", "(", "p", ":", " ", "u", "8", ";", ",", ")", " ", "-",
          ">", " ", "v", "o", "i", "d", " ", "{", " ", "f", "o", "r", " ",
          "(", "i", " ", "=", " ", "0", ";", " ", "i", " ", "|", " ", "j",
          " ", "&", " ", "k", ";", " ", "i", ")", " ", "(", "e", ")", " ",
          "f", "o", "r", " ", "(", ";", ";", ")", " ", "1", " ", "}", " ",
          "}">>)

\* a method whose body goes through the operators:
\*     class A { function f() { const g: A<B, C<f32>>; a == b != c + d / e % true } }
Operators ==
    B(<<"c", "l", "a", "s", "s", " ", "A", " ", "{", " ", "f", "u", "n",
          "c", "t", "i", "o", "n", " ", "f", "(", ")", " ", "{", " ", "c",
          "o", "n", "s", "t", " ", "g", ":", " ", "A", "<", "B", ",", " ",
          "C", "<", "f", "3", "2", ">", ">", ";", " ", "a", " ", "=", "=",
          " ", "b", " ", "!", "=", " ", "c", " ", "+", " ", "d", " ", "/",
          " ", "e", " ", "%", " ", "t", "r", "u", "e", " ", "}", " ", "}">>)

\* operands that are missing:
\*     class A { function f() { a * } function g() { ( a ; if ( ) } }
BadExpressions ==
    B(<<"c", "l", "a", "s", "s", " ", "A", " ", "{", " ", "f", "u", "n",
          "c", "t", "i", "o", "n", " ", "f", "(", ")", " ", "{", " ", "a",
          " ", "*", " ", "}", " ", "f", "u", "n", "c", "t", "i", "o", "n",
          " ", "g", "(", ")", " ", "{", " ", "(", " ", "a", " ", ";", " ",
          "i", "f", " ", "(", " ", ")", " ", "}", " ", "}">>)

\* a generic class with a generic field:
\*     class A<T> { protected var m: B<T> = "s"; }
GenericClass ==
    B(<<"c", "l", "a", "s", "s", " ", "A", "<", "T", ">", " ", "{", " ",
          "p", "r", "o", "t", "e", "c", "t", "e", "d", " ", "v", "a", "r",
          " ", "m", ":", " ", "B", "<", "T", ">", " ", "=", " ", "QUOTE",
          "s", "QUOTE", ";", " ", "}">>)

\* a generic parameter list that is not closed:
\*     class A { var m: B<C; }
BadGeneric ==
    B(<<"c", "l", "a", "s", "s", " ", "A", " ", "{", " ", "v", "a", "r",
          " ", "m", ":", " ", "B", "<", "C", ";", " ", "}">>)

\* a statement that fails, then a closed block and class:
\*     class A { function f() { if x } var y: u8; }
BadStatement ==
    B(<<"c", "l", "a", "s", "s", " ", "A", " ", "{", " ", "f", "u", "n",
          "c", "t", "i", "o", "n", " ", "f", "(", ")", " ", "{", " ", "i",
          "f", " ", "x", " ", "}", " ", "v", "a", "r", " ", "y", ":", " ",
          "u", "8", ";", " ", "}">>)

\* a method with one parameter:
\*     class A { function f(p: u8) { } }
OneParameter ==
    B(<<"c", "l", "a", "s", "s", " ", "A", " ", "{", " ", "f", "u", "n",
          "c", "t", "i", "o", "n", " ", "f", "(", "p", ":", " ", "u", "8",
          ")", " ", "{", " ", "}", " ", "}">>)

\* a method with two parameters:
\*     class A { function f(p: u8, q) { } }
TwoParameters ==
    B(<<"c", "l", "a", "s", "s", " ", "A", " ", "{", " ", "f", "u", "n",
          "c", "t", "i", "o", "n", " ", "f", "(", "p", ":", " ", "u", "8",
          ",", " ", "q", ")", " ", "{", " ", "}", " ", "}">>)

\* a method with a return type:
\*     class A { function f() -> i32 { return; } }
ReturnType ==
    B(<<"c", "l", "a", "s", "s", " ", "A", " ", "{", " ", "f", "u", "n",
          "c", "t", "i", "o", "n", " ", "f", "(", ")", " ", "-", ">", " ",
          "i", "3", "2", " ", "{", " ", "r", "e", "t", "u", "r", "n", ";",
          " ", "}", " ", "}">>)

\* levels of the ladder, and one level twice:
\*     class A { function f() { a + b * c d - e - f } }
Precedence ==
    B(<<"c", "l", "a", "s", "s", " ", "A", " ", "{", " ", "f", "u", "n",
          "c", "t", "i", "o", "n", " ", "f", "(", ")", " ", "{", " ", "a",
          " ", "+", " ", "b", " ", "*", " ", "c", " ", "d", " ", "-", " ",
          "e", " ", "-", " ", "f", " ", "}", " ", "}">>)

\* unary operators:
\*     class A { function f() { return -a; !b } }
Unaries ==
    B(<<"c", "l", "a", "s", "s", " ", "A", " ", "{", " ", "f", "u", "n",
          "c", "t", "i", "o", "n", " ", "f", "(", ")", " ", "{", " ", "r",
          "e", "t", "u", "r", "n", " ", "-", "a", ";", " ", "!", "b", " ",
          "}", " ", "}">>)

\* an assignment of an assignment:
\*     class A { function f() { a = b = c } }
Assignments ==
    B(<<"c", "l", "a", "s", "s", " ", "A", " ", "{", " ", "f", "u", "n",
          "c", "t", "i", "o", "n", " ", "f", "(", ")", " ", "{", " ", "a",
          " ", "=", " ", "b", " ", "=", " ", "c", " ", "}", " ", "}">>)

\* number literals as operands:
\*     class A { function f() { 1 + 2 * 3 } }
Numbers ==
    B(<<"c", "l", "a", "s", "s", " ", "A", " ", "{", " ", "f", "u", "n",
          "c", "t", "i", "o", "n", " ", "f", "(", ")", " ", "{", " ", "1",
          " ", "+", " ", "2", " ", "*", " ", "3", " ", "}", " ", "}">>)

\* productions that fail after a literal or a visibility was read:
\*     class A { function f() { return true } function g() { return 1 } public function }
LiteralsDestroyed ==
    B(<<"c", "l", "a", "s", "s", " ", "A", " ", "{", " ", "f", "u", "n",
          "c", "t", "i", "o", "n", " ", "f", "(", ")", " ", "{", " ", "r",
          "e", "t", "u", "r", "n", " ", "t", "r", "u", "e", " ", "}", " ",
          "f", "u", "n", "c", "t", "i", "o", "n", " ", "g", "(", ")", " ",
          "{", " ", "r", "e", "t", "u", "r", "n", " ", "1", " ", "}", " ",
          "p", "u", "b", "l", "i", "c", " ", "f", "u", "n", "c", "t", "i",
          "o", "n", " ", "}">>)

Programs ==
    { EmptyClass,
      OneField,
      Calculator,
      ClassOnly,
      BadMemberThenField,
      BadMemberThenMethod,
      BadMemberMethodField,
      VisibilityOnly,
      Unclosed,
      UnclosedBlock,
      Branches,
      Loops,
      Operators,
      BadExpressions,
      GenericClass,
      BadGeneric,
      BadStatement,
      OneParameter,
      TwoParameters,
      ReturnType,
      Precedence,
      Unaries,
      Assignments,
      Numbers,
      LiteralsDestroyed }

(***************************************************************************)
(* The parser as a state machine.                                          *)
(***************************************************************************)
\* TokenList::starts
starts(toks) == [i \in 1..Len(toks) |-> toks[i].start]

Cfg == [ctx |-> ctx, heap |-> heap, stack |-> stack, ret |-> ret, result |-> result,
        last_return |-> last_return, last_sync |-> last_sync, members |-> members,
        toks |-> types(tokens), starts |-> starts(tokens), ub |-> FALSE]

\* The state after a step that left the configuration c.  A step through
\* undefined behaviour may as well end the process.
Apply(c) ==
    /\ ctx' = c.ctx
    /\ heap' = c.heap
    /\ stack' = c.stack
    /\ ret' = c.ret
    /\ result' = c.result
    /\ last_return' = c.last_return
    /\ last_sync' = c.last_sync
    /\ members' = c.members
    /\ parse_pc' \in {IF c.stack = <<>> THEN "returned" ELSE "running"}
                     \cup (IF c.ub THEN {"aborted"} ELSE {})
    /\ UNCHANGED << lexer_vars, match_vars, last_peek >>

\* The production fn is the innermost one that is running.
Running(fn) == parse_pc = "running" /\ stack # <<>> /\ stack[Len(stack)].fn = fn

\* create_lexer was called on a source of the tests; tokenize and parse follow.
InitParse ==
    /\ impl \in {"lexer_cpp", "parser_h"}
    /\ src \in Programs
    /\ src_size = Wide(Len(src))
    /\ past_end = 0
    /\ src_length = create_lexer_src_length(Wide(Len(src)))
    /\ current_pos = 0
    /\ tokens = <<>>
    /\ line_starts = <<0>>
    /\ template_state = NoTemplate
    /\ pc = "lexing"
    /\ arch = "PORTABLE"
    /\ ctx_types = <<>>
    /\ ctx_pos = 0
    /\ last_match = NoMatch
    /\ ParserIdle
    /\ last_peek = NoPeek

\* parse(src, tokens), up to its call of parse_class.
Parse ==
    /\ pc = "done"
    /\ parse_pc = "idle"
    /\ Apply(Call([Cfg EXCEPT !.ctx = create_parse_context,
                              !.stack = << NewFrame(Cfg, "parse", FALSE) >>],
                  "parse_class", FALSE, "after_class"))

\* parse from the return of parse_class to its own.
ParseReturn == Running("parse") /\ \E r \in {parse(Cfg)} : Apply(r)

ParseClass == Running("parse_class") /\ \E r \in {parse_class(Cfg)} : Apply(r)
ParseClassBody == Running("parse_class_body") /\ \E r \in {parse_class_body(Cfg)} : Apply(r)
ParseClassMember == Running("parse_class_member") /\ \E r \in {parse_class_member(Cfg)} : Apply(r)
ParseMethod == Running("parse_method") /\ \E r \in {parse_method(Cfg)} : Apply(r)
ParseField == Running("parse_field") /\ \E r \in {parse_field(Cfg)} : Apply(r)
ParseBlock == Running("parse_block") /\ \E r \in {parse_block(Cfg)} : Apply(r)
ParseStatement == Running("parse_statement") /\ \E r \in {parse_statement(Cfg)} : Apply(r)
ParseIfStatement == Running("parse_if_statement") /\ \E r \in {parse_if_statement(Cfg)} : Apply(r)
ParseForLoop == Running("parse_for_loop") /\ \E r \in {parse_for_loop(Cfg)} : Apply(r)
ParseWhileLoop == Running("parse_while_loop") /\ \E r \in {parse_while_loop(Cfg)} : Apply(r)
ParseReturnStatement == Running("parse_return_statement") /\ \E r \in {parse_return_statement(Cfg)} : Apply(r)
ParseVariable == Running("parse_variable") /\ \E r \in {parse_variable(Cfg)} : Apply(r)
ParseType == Running("parse_type") /\ \E r \in {parse_type(Cfg)} : Apply(r)
ParseGenericParams == Running("parse_generic_params") /\ \E r \in {parse_generic_params(Cfg)} : Apply(r)
ParseExpression == Running("parse_expression") /\ \E r \in {parse_expression(Cfg)} : Apply(r)
ParseAssignment == Running("parse_assignment") /\ \E r \in {parse_assignment(Cfg)} : Apply(r)
ParseLogicalOr == Running("parse_logical_or") /\ \E r \in {parse_logical_or(Cfg)} : Apply(r)
ParseLogicalAnd == Running("parse_logical_and") /\ \E r \in {parse_logical_and(Cfg)} : Apply(r)
ParseEquality == Running("parse_equality") /\ \E r \in {parse_equality(Cfg)} : Apply(r)
ParseComparison == Running("parse_comparison") /\ \E r \in {parse_comparison(Cfg)} : Apply(r)
ParseTerm == Running("parse_term") /\ \E r \in {parse_term(Cfg)} : Apply(r)
ParseFactor == Running("parse_factor") /\ \E r \in {parse_factor(Cfg)} : Apply(r)
ParseUnary == Running("parse_unary") /\ \E r \in {parse_unary(Cfg)} : Apply(r)
ParsePrimary == Running("parse_primary") /\ \E r \in {parse_primary(Cfg)} : Apply(r)

NextParse ==
    \/ TokenizeStep
    \/ Parse \/ ParseReturn
    \/ ParseClass \/ ParseClassBody \/ ParseClassMember \/ ParseMethod \/ ParseField
    \/ ParseBlock \/ ParseStatement \/ ParseIfStatement \/ ParseForLoop
    \/ ParseWhileLoop \/ ParseReturnStatement \/ ParseVariable
    \/ ParseType \/ ParseGenericParams
    \/ ParseExpression \/ ParseAssignment \/ ParseLogicalOr \/ ParseLogicalAnd
    \/ ParseEquality \/ ParseComparison \/ ParseTerm \/ ParseFactor
    \/ ParseUnary \/ ParsePrimary

SpecParse == InitParse /\ [][NextParse]_vars

(***************************************************************************)
(* Properties of the parser.                                               *)
(***************************************************************************)
Nodes == 1..Len(heap)

Live(n) == heap[n].freed = 0

\* The children of a node that is not destroyed.
Children(n) ==
    IF Live(n) THEN { heap[n].children[i] : i \in DOMAIN heap[n].children } \ {0}
    ELSE {}

\* The nodes the child lists lead to from the nodes of frontier.
RECURSIVE Descendants(_, _)
Descendants(frontier, seen) ==
    IF UNION { Children(n) : n \in frontier } \subseteq seen THEN seen
    ELSE Descendants(UNION { Children(n) : n \in frontier } \ seen,
                     seen \cup UNION { Children(n) : n \in frontier })

\* The tree under root: root and what its child lists lead to.
Tree(root) == IF root = 0 THEN {} ELSE Descendants({root}, {root})

\* The number of places node n has in the child lists of live nodes.
Places(n) ==
    Cardinality({ <<p, i>> \in Nodes \X (1..Len(heap)) :
                    Live(p) /\ i \in DOMAIN heap[p].children
                    /\ heap[p].children[i] = n })

\* The offset of the brace that closes the one at offset open in toks, the
\* scan being at offset i with depth braces open; Len(toks) when none does.
RECURSIVE matching_brace(_, _, _)
matching_brace(toks, i, depth) ==
    IF i >= Len(toks) THEN Len(toks)
    ELSE IF toks[i + 1] = "LEFT_BRACE" THEN matching_brace(toks, i + 1, depth + 1)
    ELSE IF toks[i + 1] = "RIGHT_BRACE"
    THEN IF depth = 1 THEN i ELSE matching_brace(toks, i + 1, depth - 1)
    ELSE matching_brace(toks, i + 1, depth)

MatchingBrace(toks, open) == matching_brace(toks, open, 0)

\* The braces of the first n tokens that no brace among them closes.
RECURSIVE open_braces(_, _)
open_braces(toks, n) ==
    IF n = 0 THEN 0
    ELSE open_braces(toks, n - 1)
         + (IF toks[n] = "LEFT_BRACE" THEN 1
            ELSE IF toks[n] = "RIGHT_BRACE" /\ open_braces(toks, n - 1) > 0 THEN -1
            ELSE 0)

\* C11: when parse returns a tree, its root is the NODE_CLASS node that
\* parse_class built (the first node of the parse), and every member that
\* parsed successfully is in the tree as a NODE_METHOD or a NODE_FIELD node,
\* for every number of members.
C11_RootIsClass ==
    (parse_pc = "returned" /\ result # 0) =>
        /\ result = 1
        /\ heap[result].type = "NODE_CLASS"
        /\ Live(result)
        /\ Cardinality({ n \in Tree(result) :
                           heap[n].type \in {"NODE_METHOD", "NODE_FIELD"} }) = members

\* C12: a production that returns FAILURE leaves ctx.state.pos at the value
\* it had at the entry of that production.
C12_FailureRestoresCursor ==
    last_return.status = "FAILURE" => last_return.pos = last_return.entry

\* C13: during and after parse no node is destroyed twice, and no destroyed
\* node is referenced by ctx.current, by the scope stack, by the child list
\* of a live node or by the returned root.
C13_NoDoubleDestroyNoDangling ==
    /\ \A n \in Nodes : heap[n].freed <= 1
    /\ parse_pc = "running" =>
          /\ ctx.current # 0 => Live(ctx.current)
          /\ \A i \in DOMAIN ctx.scope_stack :
                 ctx.scope_stack[i] # 0 => Live(ctx.scope_stack[i])
    /\ \A n \in Nodes : \A child \in Children(n) : Live(child)
    /\ result # 0 => Live(result)

\* C14: when parse returns, every node created during the call is reachable
\* from the returned root or has been destroyed.
C14_NoLeak ==
    parse_pc = "returned" =>
        \A n \in Nodes : Live(n) => n \in Tree(result)

\* C15: at every point of parsing the live nodes form a forest: a node has
\* at most one place in the child lists, and no node is its own descendant.
C15_Forest ==
    \A n \in Nodes :
        Live(n) => /\ Places(n) <= 1
                   /\ n \notin Descendants(Children(n), Children(n))

\* C16: once sync_error came to the end of the token list without finding
\* the sync token, it returned FAILURE, in_error stays set, no later call of
\* sync_error succeeds, and parse returns no tree.
C16_ExhaustedSyncFailsParse ==
    last_sync.exhausted =>
        /\ last_sync.status = "FAILURE"
        /\ parse_pc = "running" => ctx.in_error = 1
        /\ parse_pc = "returned" => result = 0

C16_Witness ==
    /\ parse_pc = "returned"
    /\ last_sync.exhausted
    /\ last_sync.fn = "parse_class_body"
    /\ last_sync.from < last_sync.pos
    /\ \E n \in Nodes : heap[n].type = "NODE_METHOD"
    /\ result = 0

\* C17: when resynchronization finds the sync token after a member or a
\* statement failed, the loop of parse_class_body / parse_block goes on at
\* the token after it: as long as the list of the production that called
\* sync_error is not closed, that production is still running after the
\* call, and so parses the members or statements that follow.
C17_LoopGoesOnAfterSync ==
    [][(last_sync' # last_sync /\ last_sync'.status = "SUCCESS"
        /\ last_sync'.pos - 1 < MatchingBrace(types(tokens), last_sync'.open))
          => /\ Len(stack') >= last_sync'.depth
             /\ stack'[last_sync'.depth].fn = last_sync'.fn]_vars

\* C18: the } a successful sync_error consumed is the one that closes the
\* list in which the member or statement failed, and parse gives no tree
\* while a brace it went past is still open.
C18_SyncStaysInScope ==
    /\ last_sync.status = "SUCCESS"
          => last_sync.pos - 1 = MatchingBrace(types(tokens), last_sync.open)
    /\ (parse_pc = "returned" /\ result # 0)
          => open_braces(types(tokens), ctx.pos) = 0

\* The programs whose method has a parameter list that is not empty, and the
\* number of its parameters.
ParameterPrograms == {OneParameter, TwoParameters}

ParameterCount == IF src = OneParameter THEN 1 ELSE 2

\* The children of node n that are nodes of kind type.
ChildrenOfType(n, type) ==
    { i \in DOMAIN heap[n].children :
        heap[n].children[i] # 0 /\ heap[heap[n].children[i]].type = type }

\* C21: a method with a parameter list that is not empty parses: parse_method
\* returns SUCCESS for parameters of the form name (: Type)? (= expr)? with
\* commas between them, and each parameter is a NODE_VARIABLE child of the
\* NODE_METHOD node.
C21_ParametersParse ==
    (src \in ParameterPrograms /\ last_return.fn = "parse_method") =>
        /\ last_return.status = "SUCCESS"
        /\ \E n \in Nodes :
              /\ Live(n)
              /\ heap[n].type = "NODE_METHOD"
              /\ Cardinality(ChildrenOfType(n, "NODE_VARIABLE")) = ParameterCount

\* C22: the lexer and the parser agree on the arrow of a return type: for a
\* method written with -> Type, parse_method accepts the tokens tokenize
\* gave, the type is a NODE_TYPE child of the NODE_METHOD node, and no
\* production calls sync_error.
C22_ArrowAgreed ==
    src = ReturnType =>
        /\ last_sync.fn = "none"
        /\ last_return.fn = "parse_method" =>
              /\ last_return.status = "SUCCESS"
              /\ \E n \in Nodes :
                    /\ Live(n)
                    /\ heap[n].type = "NODE_METHOD"
                    /\ ChildrenOfType(n, "NODE_TYPE") # {}

\* C23: every node that holds the text of a token (the identifier nodes, the
\* nodes of string literals, the nodes parse_type creates for the names of
\* types, basic types included) holds as many bytes as the token is long,
\* and they are the bytes of the source at the token.
C23_TextIsTokenSlice ==
    \A n \in Nodes :
        (Live(n) /\ heap[n].token # 0) =>
            /\ Len(heap[n].text) = tokens[heap[n].token].length
            /\ heap[n].text = Slice(src, tokens[heap[n].token].start,
                                    tokens[heap[n].token].length)

\* The tree under node n as a term: the kind of the node, its op_val, its
\* text and the terms of its children in their order.
RECURSIVE Term(_)
Term(n) ==
    << heap[n].type, heap[n].op, heap[n].text,
       [i \in DOMAIN heap[n].children |-> Term(heap[n].children[i])] >>

Identifier(name) == << "NODE_IDENTIFIER", "NONE", B(<<name>>), <<>> >>
Number == << "NODE_LITERAL", "NONE", <<>>, <<>> >>
BinaryOp(op, left, right) == << "NODE_BINARY_OP", op, <<>>, <<left, right>> >>
UnaryOp(op, operand) == << "NODE_UNARY_OP", op, <<>>, <<operand>> >>

\* Expressions, each with the program it is in, the place of its first
\* token, the place after its last token, and the tree the ladder gives it.
Expressions ==
    { [program |-> Precedence, entry |-> 8, end |-> 13,
       term |-> BinaryOp("PLUS", Identifier("a"),
                         BinaryOp("STAR", Identifier("b"), Identifier("c")))],
      [program |-> Precedence, entry |-> 13, end |-> 18,
       term |-> BinaryOp("MINUS",
                         BinaryOp("MINUS", Identifier("d"), Identifier("e")),
                         Identifier("f"))],
      [program |-> Unaries, entry |-> 9, end |-> 11,
       term |-> UnaryOp("MINUS", Identifier("a"))],
      [program |-> Unaries, entry |-> 12, end |-> 14,
       term |-> UnaryOp("BANG", Identifier("b"))],
      [program |-> Numbers, entry |-> 8, end |-> 13,
       term |-> BinaryOp("PLUS", Number, BinaryOp("STAR", Number, Number))] }

C28_AssignmentRightAssociative ==
    (src = Assignments /\ last_return.fn = "parse_expression"
       /\ last_return.entry = 8)
      => /\ last_return.status = "SUCCESS"
         /\ last_return.pos = 13
         /\ Term(ctx.current) =
              BinaryOp("EQUAL", Identifier("a"),
                       BinaryOp("EQUAL", Identifier("b"), Identifier("c")))

\* The productions that create a node for their own grammar rule, and the
\* type of that node.
OwnType ==
    [parse_class |-> "NODE_CLASS", parse_method |-> "NODE_METHOD",
     parse_field |-> "NODE_FIELD", parse_variable |-> "NODE_VARIABLE",
     parse_if_statement |-> "NODE_IF", parse_for_loop |-> "NODE_LOOP",
     parse_while_loop |-> "NODE_LOOP", parse_return_statement |-> "NODE_RETURN",
     parse_type |-> "NODE_TYPE", parse_generic_params |-> "NODE_TYPE"]

\* The node the running production created: the node of its frame, or the
\* next node of the heap when the production creates it in this step.
OwnNode == IF Top([stack |-> stack]).node # 0 THEN Top([stack |-> stack]).node
           ELSE Len(heap) + 1

\* C31: at every SUCCESS return of a production that creates a node for its
\* own grammar rule, ctx.current is that node.
C31_CurrentIsOwnNode ==
    [][ (/\ stack # <<>>
         /\ stack' = SubSeq(stack, 1, Len(stack) - 1)
         /\ Top([stack |-> stack]).fn \in DOMAIN OwnType
         /\ last_return'.fn = Top([stack |-> stack]).fn
         /\ last_return'.status = "SUCCESS")
        => /\ ctx'.current = OwnNode
           /\ heap'[ctx'.current].type = OwnType[Top([stack |-> stack]).fn] ]_vars

\* C32: parse_equality consumes `=` and `!` only as part of `==` and `!=`:
\* when it returns SUCCESS the token before the cursor is the end of an
\* operand, never an `=` or `!` it took and left behind, and for `a = b = c`
\* it returns with the cursor at the first `=`.
C32_EqualityLeavesAssignment ==
    (last_return.fn = "parse_equality" /\ last_return.status = "SUCCESS") =>
        /\ last_return.pos > 0
              => tokens[last_return.pos].type \notin {"EQUAL", "BANG"}
        /\ (src = Assignments /\ last_return.entry = 8) => last_return.pos = 9

\* C37: every read of the token arrays during parsing uses an index below
\* the number of tokens: when parse_primary has returned from its
\* NUM_LITERAL branch, the index with which it read starts[] is one.
C37_TokenReadsInRange ==
    (/\ last_return.fn = "parse_primary"
     /\ last_return.status = "SUCCESS"
     /\ last_return.pos = last_return.entry + 1
     /\ tokens[last_return.pos].type = "NUM_LITERAL"
     /\ ctx.pos = last_return.pos)
      => number_start_index(Cfg) < Len(tokens)

\* C38: destroy_node releases a text buffer only for nodes that hold one:
\* a node whose union was not written as str_val (a numeric or boolean
\* literal, the visibility marker of a member) never has its text pointer
\* deleted.
C38_OnlyOwnedTextReleased ==
    \A n \in 1..Len(heap) : heap[n].value # "str_val" => heap[n].text_deleted = 0

(***************************************************************************)
(* The lexer driven token by token (peek_next, advance and next_token of   *)
(* the copy in parser.h; lexer.cpp defines neither peek_next nor advance). *)
(***************************************************************************)
\* peek_next(lexer): the token, and the lexer fields the call leaves, lx
\* being the lexer before it.  The const_cast hands the lexer itself to
\* next_token.
peek_next(s, n, pe, lx) ==
    IF lx.current_pos >= n
    THEN [token |-> token_t(lx.current_pos, 0, "END_OF_FILE", {}),
          current_pos |-> lx.current_pos, line_starts |-> lx.line_starts,
          template_state |-> lx.template_state]
    ELSE next_token_h(s, n, pe, lx.current_pos, lx.line_starts, lx.template_state)

\* advance(lexer): the lexer fields the call leaves.
advance(s, n, pe, lx) ==
    IF lx.current_pos < n
    THEN LET r == next_token_h(s, n, pe, lx.current_pos, lx.line_starts,
                               lx.template_state)
         IN  [current_pos |-> r.current_pos + r.token.length,
              line_starts |-> r.line_starts, template_state |-> r.template_state]
    ELSE [current_pos |-> lx.current_pos, line_starts |-> lx.line_starts,
          template_state |-> lx.template_state]

\* get_line_col(lexer, token): it is what std::upper_bound gives, as a
\* distance from line_starts.begin().
upper_bound(ls, value) ==
    CHOOSE it \in 0..Len(ls) :
        /\ \A i \in 1..it : ls[i] <= value
        /\ it < Len(ls) => ls[it + 1] > value

get_line_col(ls, token) ==
    [line |-> upper_bound(ls, token.start),
     col |-> token.start - ls[upper_bound(ls, token.start)] + 1]

\* The calls a client makes on one lexer: the entries of line_starts bound them.
MaxLineStarts == 6

\* The sources a client walks through.
ClientSources ==
    (Sources \ {LongIdentifier}) \cup {B(<<"T", "<", "T", ">", ">", "c">>)}

InitClient ==
    /\ impl = "parser_h"
    /\ src \in ClientSources
    /\ src_size = Wide(Len(src))
    /\ past_end \in PastEnd("parser_h")
    /\ src_length = create_lexer_src_length(Wide(Len(src)))
    /\ current_pos = 0
    /\ tokens = <<>>
    /\ line_starts = <<0>>
    /\ template_state = NoTemplate
    /\ pc = "client"
    /\ arch = "PORTABLE"
    /\ ctx_types = <<>>
    /\ ctx_pos = 0
    /\ last_match = NoMatch
    /\ ParserIdle
    /\ last_peek = NoPeek

\* The lexer fields a call of the client left, and the call.
ClientCall(op, r) ==
    /\ current_pos' = r.current_pos
    /\ line_starts' = r.line_starts
    /\ template_state' = r.template_state
    /\ last_peek' = [op |-> op, token |-> r.token, before |-> Lx,
                     after |-> [Lx EXCEPT !.current_pos = r.current_pos,
                                          !.line_starts = r.line_starts,
                                          !.template_state = r.template_state]]
    /\ UNCHANGED << impl, src, src_size, past_end, src_length, tokens, pc,
                    match_vars, parse_vars >>

PeekNext ==
    /\ pc = "client"
    /\ Len(line_starts) < MaxLineStarts
    /\ \E r \in {peek_next(src, Narrow(src_length), past_end, Lx)} :
           ClientCall("peek_next", r)

NextToken ==
    /\ pc = "client"
    /\ Len(line_starts) < MaxLineStarts
    /\ \E r \in {next_token_h(src, Narrow(src_length), past_end, current_pos,
                              line_starts, template_state)} :
           ClientCall("next_token", r)

Advance ==
    /\ pc = "client"
    /\ Len(line_starts) < MaxLineStarts
    /\ \E r \in {advance(src, Narrow(src_length), past_end, Lx)} :
           /\ current_pos' = r.current_pos
           /\ line_starts' = r.line_starts
           /\ template_state' = r.template_state
    /\ UNCHANGED << impl, src, src_size, past_end, src_length, tokens, pc,
                    match_vars, parse_vars, last_peek >>

NextClient == PeekNext \/ NextToken \/ Advance

SpecClient == InitClient /\ [][NextClient]_vars

(***************************************************************************)
(* Properties of the lexer driven by a client, and of line_starts.         *)
(***************************************************************************)
\* C19: peek_next leaves the lexer as it was (current_pos, line_starts, the
\* token list, the generic-bracket state), so the call that follows a
\* peek_next, be it peek_next or next_token, returns the token the
\* peek_next returned.
C19_PeekLeavesLexer ==
    [][/\ (last_peek' # last_peek /\ last_peek'.op = "peek_next") => Lx' = Lx
       /\ (last_peek.op = "peek_next" /\ last_peek' # last_peek
            /\ last_peek'.before = last_peek.after)
              => last_peek'.token = last_peek.token]_vars

\* The offsets of the newline bytes of the source before the offset p.
NewlinesBefore(p) == { q \in 0..(p - 1) : q < Len(src) /\ At(src, q) = 10 }

\* The offset of the first byte of the line of the offset p.
LineStart(p) ==
    IF NewlinesBefore(p) = {} THEN 0
    ELSE 1 + CHOOSE q \in NewlinesBefore(p) : \A k \in NewlinesBefore(p) : k <= q

\* C20: after tokenize, get_line_col gives for every token the line
\* 1 + the number of newlines before token.start, and the column
\* token.start - the offset of the first byte of that line + 1.
C20_LineColOfTokens ==
    pc = "done" =>
        \A i \in 1..Len(tokens) :
            get_line_col(line_starts, tokens[i])
                = [line |-> 1 + Cardinality(NewlinesBefore(tokens[i].start)),
                   col |-> tokens[i].start - LineStart(tokens[i].start) + 1]

(***************************************************************************)
(* Further properties of the lexer.                                        *)
(***************************************************************************)
\* The lengths of the entries of the operator table that the source has at
\* offset p.
EntriesAt(p) ==
    { len \in 1..3 : p + len <= Len(src) /\ Slice(src, p, len) \in DOMAIN token_map }

\* The longest of them.
LongestEntry(p) == CHOOSE len \in EntriesAt(p) : \A o \in EntriesAt(p) : o <= len

\* C24: outside generic-bracket context, a token that starts at a byte of an
\* operator or of punctuation is the longest entry of the operator table
\* that the source has there (3 bytes, then 2, then 1), so <<=, >>=, ==, !=,
\* <=, >=, &&, ||, the compound assignments and -> are one token each.
C24_LongestOperator ==
    [][(/\ pc = "lexing"
        /\ src_size = Wide(Len(src))
        /\ template_state = NoTemplate
        /\ Len(tokens') = Len(tokens) + 1
        /\ LastToken'.type # "END_OF_FILE"
        /\ char_type(At(src, LastToken'.start)) \notin {4, 5, 6}
        /\ EntriesAt(LastToken'.start) # {})
          => /\ LastToken'.length = LongestEntry(LastToken'.start)
             /\ LastToken'.type =
                  token_map[Slice(src, LastToken'.start, LongestEntry(LastToken'.start))]]_vars

\* a < b; c >> d
ComparisonThenShift ==
    B(<<"a", " ", "<", " ", "b", ";", " ", "c", " ", ">", ">", " ", "d">>)

\* C25: a '<' that is a comparison and that no '>' closes does not keep the
\* lexer in template context past the next byte that is no bracket, no
\* identifier and no white space: after the token of a ';' the state is
\* NONE, and in a < b; c >> d the >> is one RIGHT_SHIFT token.
C25_ComparisonLeavesTemplate ==
    /\ (pc \in {"lexing", "done"} /\ Len(tokens) > 0 /\ LastToken.type = "SEMICOLON")
          => template_state = NoTemplate
    /\ (pc = "done" /\ src = ComparisonThenShift)
          => types(tokens) = << "IDENTIFIER", "LESS", "IDENTIFIER", "SEMICOLON",
                                "IDENTIFIER", "RIGHT_SHIFT", "IDENTIFIER",
                                "END_OF_FILE" >>

\* The offsets after the newline bytes of the source.
AfterNewlines == { p + 1 : p \in { q \in 0..(Len(src) - 1) : At(src, q) = 10 } }

\* C26: after tokenize, line_starts is strictly increasing, starts with 0,
\* and holds besides exactly one entry p + 1 for each newline byte at offset
\* p of the source.
C26_LineStartsAreNewlines ==
    (pc = "done" /\ src_size = Wide(Len(src))) =>
        /\ line_starts[1] = 0
        /\ \A i \in 1..(Len(line_starts) - 1) : line_starts[i] < line_starts[i + 1]
        /\ { line_starts[i] : i \in 2..Len(line_starts) } = AfterNewlines
        /\ Len(line_starts) = 1 + Cardinality(AfterNewlines)

\* The number of backslashes that stand in a row right before offset p of
\* the source, counted back no further than offset low.
RECURSIVE BackslashesBefore(_, _)
BackslashesBefore(p, low) ==
    IF p > low /\ At(src, p - 1) = 92 THEN 1 + BackslashesBefore(p - 1, low) ELSE 0

\* The offsets of the source inside string token t, after its opening quote,
\* that hold a quote; the quote at p is unescaped when the backslashes before it are even
\* in number.
QuotesIn(t) ==
    { p \in (t.start + 1)..(t.start + t.length - 1) : p < Len(src) /\ At(src, p) = 34 }
Unescaped(t, p) == BackslashesBefore(p, t.start + 1) % 2 = 0

\* C29: a quote inside a string literal ends the token exactly when an even
\* number of backslashes stands before it: an unescaped quote is the last
\* byte of its token, an escaped quote is not the last byte of a token that
\* ends before the end of the source, and the token after a closed string
\* starts at or after the byte that follows the closing quote.
C29_QuoteEndsString ==
    (pc = "done" /\ src_size = Wide(Len(src))) =>
        \A i \in 1..Len(tokens) :
            (tokens[i].type = "STR_LITERAL" /\ At(src, tokens[i].start) = 34) =>
                /\ \A p \in QuotesIn(tokens[i]) :
                      /\ Unescaped(tokens[i], p)
                            => p = tokens[i].start + tokens[i].length - 1
                      /\ (~Unescaped(tokens[i], p)
                            /\ tokens[i].start + tokens[i].length < Len(src))
                            => p # tokens[i].start + tokens[i].length - 1
                /\ i < Len(tokens) =>
                      tokens[i + 1].start >= tokens[i].start + tokens[i].length

\* The offsets of the '.' bytes inside token t.
DotsIn(t) == { p \in t.start..(t.start + t.length - 1) : p < Len(src) /\ At(src, p) = 46 }

\* C30: a NUM_LITERAL token whose scan consumed more than one '.' carries
\* the MultipleDecimalPoints flag, and the source 1.2.3 gives one such
\* token of five bytes.
C30_MultipleDecimalPointsFlagged ==
    (pc = "done" /\ src_size = Wide(Len(src))) =>
        /\ \A i \in 1..Len(tokens) :
              (tokens[i].type = "NUM_LITERAL" /\ Cardinality(DotsIn(tokens[i])) > 1)
                => "MULTIPLE_DECIMAL_POINTS" \in tokens[i].flags
        /\ src = B(<<"1", ".", "2", ".", "3">>)
              => /\ Len(tokens) = 2
                 /\ tokens[1].type = "NUM_LITERAL"
                 /\ tokens[1].length = 5

Closed(t) ==
    /\ t.length >= 2
    /\ t.start + t.length <= Len(src)
    /\ At(src, t.start + t.length - 1) = 34
    /\ Unescaped(t, t.start + t.length - 1)

\* C34: the unterminated-string flag is only on string tokens without a
\* closing quote: a string token that ends in its closing quote never
\* carries it, also when that quote is the last byte of the source.
C34_ClosedStringNotFlagged ==
    (pc = "done" /\ src_size = Wide(Len(src))) =>
        \A i \in 1..Len(tokens) :
            (tokens[i].type = "STR_LITERAL" /\ At(src, tokens[i].start) = 34
               /\ Closed(tokens[i]))
              => "UNTERMINATED_STRING" \notin tokens[i].flags

\* Where the comment that begins at offset a of the source ends: after the
\* newline-free rest of the line for `//`, after the first `*/` for `/*`,
\* at the end of the source when the comment is not closed.
CommentEnd(a) ==
    IF At(src, a + 1) = 47
    THEN ScanWhile(a + 2, Len(src), {k \in (a + 2)..(Len(src) - 1) : At(src, k) = 10})
    ELSE LET ends == {k \in (a + 2)..(Len(src) - 2) :
                          At(src, k) = 42 /\ At(src, k + 1) = 47}
         IN  IF ends = {} THEN Len(src)
             ELSE 2 + CHOOSE k \in ends : \A o \in ends : k <= o

\* Whether the byte at offset a is one no token begins with: the lexer of
\* parser.h drops the UNKNOWN token it makes of it.
UnknownByte(a) ==
    /\ impl = "parser_h"
    /\ char_type(At(src, a)) \notin {4, 5, 6}
    /\ operator_scan_h(src, Len(src), a).type = "UNKNOWN"

\* Whether the bytes of the source from offset a up to offset b are only
\* whitespace, comments and dropped unknown bytes.
RECURSIVE GapOnlySkipped(_, _)
GapOnlySkipped(a, b) ==
    IF a >= b \/ a >= Len(src) THEN TRUE
    ELSE IF isspace(At(src, a)) THEN GapOnlySkipped(a + 1, b)
    ELSE IF At(src, a) = 47 /\ a + 1 < Len(src) /\ At(src, a + 1) \in {47, 42}
    THEN GapOnlySkipped(CommentEnd(a), b)
    ELSE IF UnknownByte(a) THEN GapOnlySkipped(a + 1, b)
    ELSE FALSE

\* C35: the tokens of tokenize are ordered, not empty and disjoint: every
\* token but END_OF_FILE has a length of at least 1, a token ends at or
\* before the start of the next, and the bytes between them are only
\* whitespace, comments and dropped unknown bytes.
C35_TokensOrderedDisjoint ==
    (pc = "done" /\ src_size = Wide(Len(src))) =>
        /\ \A i \in 1..Len(tokens) :
              tokens[i].type # "END_OF_FILE" => tokens[i].length >= 1
        /\ \A i \in 1..(Len(tokens) - 1) :
              /\ tokens[i].start + tokens[i].length <= tokens[i + 1].start
              /\ GapOnlySkipped(tokens[i].start + tokens[i].length, tokens[i + 1].start)
(***************************************************************************)
(* sync_error on a token list as long as the range of the cursor.  The     *)
(* list is kept by its size: END_OF_FILE is its last token, a `}` stands   *)
(* at offset brace (nowhere when brace = count), every other token is `;`. *)
(***************************************************************************)
\* The iterations of the loop are followed while the cursor is within
\* MaxSync of the end of its range.
MaxSync == 8

LongLists ==
    { [count |-> count, brace |-> brace] :
        count \in {PosRange - 1, PosRange, PosRange + 1},
        brace \in {PosRange - 3, PosRange + 1} }

\* ctx->tokens->types[pos] of a long list
KindAt(list, pos) ==
    IF pos = list.count - 1 THEN "END_OF_FILE"
    ELSE IF pos = list.brace THEN "RIGHT_BRACE"
    ELSE "SEMICOLON"

\* match_token(ctx, type) on a long list: the status, and the cursor after
\* ctx->state.pos++ on the bit-field of 24 bits.
match_token_long(list, pos, type) ==
    IF pos >= list.count THEN [status |-> "FAILURE", pos |-> pos]
    ELSE IF KindAt(list, pos) = type
    THEN [status |-> "SUCCESS", pos |-> (pos + 1) % PosRange]
    ELSE [status |-> "FAILURE", pos |-> pos]

\* One iteration of the loop of sync_error: the context it leaves, and
\* whether it returned SUCCESS.
sync_error_iteration(list, cx, sync_token) ==
    IF match_token_long(list, cx.pos, sync_token).status = "SUCCESS"
    THEN [ctx |-> [cx EXCEPT !.pos = match_token_long(list, cx.pos, sync_token).pos,
                             !.in_error = 0],
          found |-> TRUE]
    ELSE [ctx |-> [cx EXCEPT !.pos = (cx.pos + 1) % PosRange], found |-> FALSE]

\* Whether the cursor is within MaxSync of the end of its range.
NearRangeEnd(pos) == pos >= PosRange - MaxSync \/ pos < MaxSync

\* A production has failed with the cursor near the end of its range and
\* is about to call sync_error(ctx, RIGHT_BRACE).
InitSync ==
    /\ impl = "parser_h"
    /\ src = <<>>
    /\ src_size = Wide(0)
    /\ past_end = 0
    /\ src_length = Wide(0)
    /\ current_pos = 0
    /\ tokens = <<>>
    /\ line_starts = <<>>
    /\ template_state = NoTemplate
    /\ pc = "start"
    /\ arch = "PORTABLE"
    /\ ctx_types \in LongLists
    /\ ctx_pos = 0
    /\ last_match = NoMatch
    /\ \E pos \in (PosRange - MaxSync)..(PosRange - 1) :
          ctx = [create_parse_context EXCEPT !.pos = pos]
    /\ heap = <<>>
    /\ stack = <<>>
    /\ ret = "NONE"
    /\ result = 0
    /\ parse_pc = "idle"
    /\ last_return = NoReturn
    /\ last_sync = NoSync
    /\ members = 0
    /\ last_peek = NoPeek

SyncFrame == << lexer_vars, match_vars, heap, stack, result, last_return, last_sync,
                members, last_peek >>

\* sync_error up to its loop: ctx->state.in_error = 1
SyncEnter ==
    /\ parse_pc = "idle"
    /\ ctx' = [ctx EXCEPT !.in_error = 1]
    /\ parse_pc' = "running"
    /\ UNCHANGED << ret, SyncFrame >>

\* One iteration of the loop of sync_error.
SyncIterate ==
    /\ parse_pc = "running"
    /\ ctx.pos < ctx_types.count
    /\ NearRangeEnd(ctx.pos)
    /\ \E r \in {sync_error_iteration(ctx_types, ctx, "RIGHT_BRACE")} :
          /\ ctx' = r.ctx
          /\ ret' = IF r.found THEN sync_error_status(TRUE) ELSE ret
          /\ parse_pc' = IF r.found THEN "returned" ELSE "running"
    /\ UNCHANGED SyncFrame

\* The loop of sync_error ends at the end of the list.
SyncExhausted ==
    /\ parse_pc = "running"
    /\ ctx.pos >= ctx_types.count
    /\ ret' = sync_error_status(FALSE)
    /\ parse_pc' = "returned"
    /\ UNCHANGED << ctx, SyncFrame >>

NextSync == SyncEnter \/ SyncIterate \/ SyncExhausted

SpecSync == InitSync /\ [][NextSync]_vars

\* C36: parse terminates on every finite token list: each iteration of the
\* loop of sync_error either moves the cursor strictly forward or leaves the
\* loop, and the cursor never exceeds the number of tokens.
C36_SyncLoopAdvances ==
    [][ (parse_pc = "running" /\ parse_pc' = "running")
          => (ctx'.pos > ctx.pos /\ ctx'.pos <= ctx_types.count) ]_vars
=============================================================================
